---- MODULE Spec2Model ----
(***************************************************************************)
(* RPC load-balancing and resilience layer:                                *)
(*   GrpcLoadBalancer / BackendServer      (utils/loadBalancer)            *)
(*   ResilientGrpcClient                   (utils/resilientClient)         *)
(*   LoadBalancedGrpcClient                (utils/loadBalancedClient)      *)
(*   GrpcLoadBalancerGateway               (gateway)                       *)
(* Time is counted in ticks of Date.now(); one tick stands for 2500 ms.    *)
(***************************************************************************)
EXTENDS Integers, Sequences, FiniteSets, TLC

(* ------------------------------ bounds -------------------------------- *)
NumBackends == 2
NumCalls == 2
MaxAdds == 2
MaxProbes == 1
MaxTime == 1
MaxFacadeTime == 1
NumPoolBackends == 1
MaxClientsPerServer == 1
MaxSelections == 6
NumDirectBackends == 3
NumFewBackends == 2
MaxFewSelections == 4
MaxShortSelections == 3
MaxDirectAdds == 3
NumExecCalls == 2
MaxExecRequests == 4
FailureThreshold == 2
ResetTimeout == 1
NumServices == 2
MaxRegistryClock == 6
NumRequests == 2
MaxBreakerClock == 5
MaxAttemptTime == 1
NumAttemptCalls == 2
MaxAttemptRequests == 2
MaxMemberSteps == 4

(* ------------------------- program constants -------------------------- *)
DefaultWeight == 1
DefaultMaxConnections == 100
maxResponseTimeHistory == 100
DefaultMaxClientsPerServer == 5
DefaultMaxRetries == 3
DefaultFailureThreshold == 5
DefaultResetTimeout == 12
DefaultTimeoutMs == 12      \* options.timeoutMs || 30000, in ticks of 2500 ms
HashMultiplier == 31
StaleHeartbeat == 2        \* loadRegistry: 120000 ms, in minutes
InactiveHeartbeat == 5     \* checkServiceHealth: 300000 ms, in minutes
BreakerThreshold == 3      \* CircuitBreaker: threshold = 3
BreakerTimeout == 3        \* CircuitBreaker: timeout = 60000 ms, in units of 20 s
ResponseTimeCeiling == 2

Word == 2 ^ 16
BackendIds == <<"a:1", "b:1", "c:1", "d:1">>
Backends == {BackendIds[i] : i \in 1..NumBackends}
PoolBackends == {BackendIds[i] : i \in 1..NumPoolBackends}
Calls == 1..NumCalls
ExecCalls == 1..NumExecCalls
EmptyMap == [x \in {} |-> 0]
NoServer == "none"

Strategies ==
    {"round_robin", "weighted_round_robin", "least_connections",
     "health_based", "ip_hash"}

HEALTHY == "healthy"
UNHEALTHY == "unhealthy"
UNKNOWN == "unknown"

(* client addresses as strings of char codes *)
IpLocal == <<49, 50, 55, 46, 48, 46, 48, 46, 49>>
IpA == <<49, 48, 46, 48, 46, 48, 46, 49>>
IpB == <<49, 48, 46, 48, 46, 48, 46, 50>>
IpUnknown == <<117, 110, 107, 110, 111, 119, 110>>
NoIp == <<>>
NoSession == "none"
SessionIds == {"s1"}

(* --------------------------- small helpers ----------------------------- *)
Min(a, b) == IF a < b THEN a ELSE b
Max(a, b) == IF a > b THEN a ELSE b

RECURSIVE SumSeq(_)
SumSeq(s) == IF s = <<>> THEN 0 ELSE Head(s) + SumSeq(Tail(s))

RECURSIVE FilterSeq(_, _)
FilterSeq(s, keep) ==
    IF s = <<>> THEN <<>>
    ELSE IF keep[Head(s)] THEN <<Head(s)>> \o FilterSeq(Tail(s), keep)
         ELSE FilterSeq(Tail(s), keep)

RECURSIVE Repeat(_, _)
Repeat(x, n) == IF n <= 0 THEN <<>> ELSE <<x>> \o Repeat(x, n - 1)

(* ---------------------------- BackendServer ---------------------------- *)
(* options.weight / options.maxConnections: 0 stands for an absent option *)
BackendServer(id, gen, optWeight, optMaxConn) ==
    [id |-> id, gen |-> gen,
     weight |-> IF optWeight = 0 THEN DefaultWeight ELSE optWeight,
     maxConnections |-> IF optMaxConn = 0 THEN DefaultMaxConnections ELSE optMaxConn,
     currentConnections |-> 0,
     totalRequests |-> 0, successfulRequests |-> 0, failedRequests |-> 0,
     health |-> UNKNOWN, enabled |-> TRUE,
     responseTimes |-> <<>>]

addConnection(s) == [s EXCEPT !.currentConnections = @ + 1]

removeConnection(s) ==
    IF s.currentConnections > 0
    THEN [s EXCEPT !.currentConnections = @ - 1]
    ELSE s

recordRequest(s, success, responseTime) ==
    LET counted == [s EXCEPT !.totalRequests = @ + 1,
                             !.successfulRequests = IF success THEN @ + 1 ELSE @,
                             !.failedRequests = IF success THEN @ ELSE @ + 1]
        pushed == Append(counted.responseTimes, responseTime)
    IN IF responseTime > 0
       THEN [counted EXCEPT !.responseTimes =
                IF Len(pushed) > maxResponseTimeHistory THEN Tail(pushed) ELSE pushed]
       ELSE counted

isAvailable(s) ==
    /\ s.enabled
    /\ s.health # UNHEALTHY
    /\ s.currentConnections < s.maxConnections

(* getHealthScore as an exact fraction of 10: <<numerator, denominator>>.   *)
(* responseTime is the mean of the window, ResponseTimeCeiling is 5000 ms.  *)
getHealthScore(s) ==
    IF ~isAvailable(s) THEN <<0, 1>>
    ELSE LET T == IF s.totalRequests = 0 THEN 1 ELSE s.totalRequests
             S == IF s.totalRequests = 0 THEN 1 ELSE s.successfulRequests
             M == s.maxConnections
             L == IF s.responseTimes = <<>> THEN 1 ELSE Len(s.responseTimes)
             R == Max(0, L * ResponseTimeCeiling - SumSeq(s.responseTimes))
             C == L * ResponseTimeCeiling
         IN <<5 * S * M * C + 3 * (M - s.currentConnections) * T * C + 2 * R * T * M,
              T * M * C>>

ScoreGreater(a, b) == a[1] * b[2] > b[1] * a[2]

(* --------------------------- GrpcLoadBalancer -------------------------- *)
NewLoadBalancer(strategy, sticky) ==
    [servers |-> <<>>, strategy |-> strategy, stickySession |-> sticky,
     sessionStore |-> EmptyMap, roundRobinIndex |-> 0,
     weightedRoundRobinState |-> <<>>, totalRequests |-> 0,
     distributionStats |-> EmptyMap]

(* Map helpers: servers is the Map in insertion order *)
IndexOf(servers, id) ==
    IF \E i \in 1..Len(servers) : servers[i].id = id
    THEN CHOOSE i \in 1..Len(servers) : servers[i].id = id
    ELSE 0

HasServer(servers, id) == IndexOf(servers, id) # 0
GetServer(servers, id) == servers[IndexOf(servers, id)]
ServerIds(servers) == {servers[i].id : i \in 1..Len(servers)}

MapSet(servers, s) ==
    IF HasServer(servers, s.id)
    THEN [servers EXCEPT ![IndexOf(servers, s.id)] = s]
    ELSE Append(servers, s)

MapDelete(servers, id) ==
    FilterSeq(servers, [i \in {servers[j] : j \in 1..Len(servers)} |-> i.id # id])

FnSet(f, k, v) == [x \in (DOMAIN f) \cup {k} |-> IF x = k THEN v ELSE f[x]]
FnDelete(f, k) == [x \in (DOMAIN f) \ {k} |-> f[x]]

reconfigureAlgorithms(lb) ==
    [lb EXCEPT !.weightedRoundRobinState = <<>>, !.roundRobinIndex = 0]

addServer(lb, id, gen, optWeight, optMaxConn) ==
    reconfigureAlgorithms(
        [lb EXCEPT !.servers = MapSet(@, BackendServer(id, gen, optWeight, optMaxConn)),
                   !.distributionStats = FnSet(@, id, 0)])

(* removeServer that leaves the cursor and the weighted sequence as they are *)
removeServer_keep(lb, id) ==
    IF HasServer(lb.servers, id)
    THEN [lb EXCEPT !.servers = MapDelete(@, id),
                    !.distributionStats = FnDelete(@, id)]
    ELSE lb

removeServer(lb, id) ==
    IF HasServer(lb.servers, id)
    THEN reconfigureAlgorithms(
            [lb EXCEPT !.servers = MapDelete(@, id),
                       !.distributionStats = FnDelete(@, id)])
    ELSE lb

setServerEnabled(lb, id, enabled) ==
    IF HasServer(lb.servers, id)
    THEN [lb EXCEPT !.servers[IndexOf(lb.servers, id)].enabled = enabled]
    ELSE lb

(* onRequestCompleted that leaves the connection counted *)
onRequestCompleted_keep(lb, id, success, responseTime) ==
    IF HasServer(lb.servers, id)
    THEN [lb EXCEPT !.servers[IndexOf(lb.servers, id)] =
            recordRequest(@, success, responseTime)]
    ELSE lb

onRequestCompleted(lb, id, success, responseTime) ==
    IF HasServer(lb.servers, id)
    THEN [lb EXCEPT !.servers[IndexOf(lb.servers, id)] =
            recordRequest(removeConnection(@), success, responseTime)]
    ELSE lb

(* hashString: hash = ((hash << 5) - hash + char) as a 32 bit integer, kept   *)
(* as <<high word, low word>>; then Math.abs.                                *)
RECURSIVE hashWords(_, _)
hashWords(str, h) ==
    IF str = <<>> THEN h
    ELSE LET lo == h[2] * HashMultiplier + Head(str)
             hi == h[1] * HashMultiplier + (lo \div Word)
         IN hashWords(Tail(str), <<hi % Word, lo % Word>>)

(* Math.abs(hash) % n for the signed 32 bit value held in h *)
absHashMod(h, n) ==
    LET neg == h[1] >= Word \div 2
        (* magnitude of a negative value: 2^32 - h, again as two words *)
        mlo == IF neg THEN (Word - h[2]) % Word ELSE h[2]
        mhi == IF neg THEN (IF h[2] = 0 THEN Word - h[1] ELSE Word - 1 - h[1]) ELSE h[1]
    IN ((mhi % n) * (Word % n) + (mlo % n)) % n

hashIndex(str, n) == absHashMod(hashWords(str, <<0, 0>>), n)

(* every order Fisher-Yates can leave the array in *)
shuffleArray(arr) ==
    {[i \in 1..Len(arr) |-> arr[p[i]]] : p \in Permutations(1..Len(arr))}

RECURSIVE flattenWeights(_)
flattenWeights(servers) ==
    IF servers = <<>> THEN <<>>
    ELSE Repeat(Head(servers).id, Head(servers).weight) \o flattenWeights(Tail(servers))

(* buildWeightedRoundRobinState that lists every backend once *)
buildWeightedRoundRobinState_flat(servers) ==
    shuffleArray([i \in 1..Len(servers) |-> servers[i].id])

buildWeightedRoundRobinState(servers) == shuffleArray(flattenWeights(servers))

availableServers(lb) ==
    FilterSeq(lb.servers,
              [s \in {lb.servers[j] : j \in 1..Len(lb.servers)} |-> isAvailable(s)])

(* selectRoundRobin that forgets to advance the cursor *)
selectRoundRobin_stuck(lb, servers) ==
    [id |-> servers[(lb.roundRobinIndex % Len(servers)) + 1].id, lb |-> lb]

(* each select* yields [id, lb]: the chosen backend and the balancer after it *)
selectRoundRobin(lb, servers) ==
    [id |-> servers[(lb.roundRobinIndex % Len(servers)) + 1].id,
     lb |-> [lb EXCEPT !.roundRobinIndex = @ + 1]]

selectWeightedRoundRobin(lb, servers) ==
    LET built == IF lb.weightedRoundRobinState = <<>>
                 THEN buildWeightedRoundRobinState(servers)
                 ELSE {lb.weightedRoundRobinState}
    IN { IF st = <<>>
         THEN selectRoundRobin([lb EXCEPT !.weightedRoundRobinState = st], servers)
         ELSE [id |-> st[(lb.roundRobinIndex % Len(st)) + 1],
               lb |-> [lb EXCEPT !.weightedRoundRobinState = st,
                                 !.roundRobinIndex = @ + 1]]
         : st \in built }

RECURSIVE reduceLeast(_, _)
reduceLeast(least, rest) ==
    IF rest = <<>> THEN least
    ELSE reduceLeast(IF Head(rest).currentConnections < least.currentConnections
                     THEN Head(rest) ELSE least, Tail(rest))

(* selectLeastConnections that ignores the connection counts *)
selectLeastConnections_first(lb, servers) ==
    [id |-> Head(servers).id, lb |-> lb]

selectLeastConnections(lb, servers) ==
    [id |-> reduceLeast(Head(servers), Tail(servers)).id, lb |-> lb]

RECURSIVE reduceBest(_, _)
reduceBest(best, rest) ==
    IF rest = <<>> THEN best
    ELSE reduceBest(IF ScoreGreater(getHealthScore(Head(rest)), getHealthScore(best))
                    THEN Head(rest) ELSE best, Tail(rest))

selectHealthBased(lb, servers) ==
    [id |-> reduceBest(Head(servers), Tail(servers)).id, lb |-> lb]

(* selectIpHash that lets the round-robin cursor shift the hashed position *)
selectIpHash_cursor(lb, servers, clientIp) ==
    IF clientIp = NoIp
    THEN selectRoundRobin(lb, servers)
    ELSE [id |-> servers[((hashIndex(clientIp, Len(servers)) + lb.roundRobinIndex)
                            % Len(servers)) + 1].id,
          lb |-> lb]

selectIpHash(lb, servers, clientIp) ==
    IF clientIp = NoIp
    THEN selectRoundRobin(lb, servers)
    ELSE [id |-> servers[hashIndex(clientIp, Len(servers)) + 1].id, lb |-> lb]

selectByStrategy(lb, servers, clientInfo) ==
    CASE lb.strategy = "round_robin" -> {selectRoundRobin(lb, servers)}
      [] lb.strategy = "weighted_round_robin" -> selectWeightedRoundRobin(lb, servers)
      [] lb.strategy = "least_connections" -> {selectLeastConnections(lb, servers)}
      [] lb.strategy = "health_based" -> {selectHealthBased(lb, servers)}
      [] lb.strategy = "ip_hash" -> {selectIpHash(lb, servers, clientInfo.clientIp)}
      [] OTHER -> {selectRoundRobin(lb, servers)}

(* stickyServer that does not ask whether the bound backend is available *)
stickyServer_unchecked(lb, clientInfo) ==
    IF /\ lb.stickySession
       /\ clientInfo.sessionId # NoSession
       /\ clientInfo.sessionId \in DOMAIN lb.sessionStore
       /\ HasServer(lb.servers, lb.sessionStore[clientInfo.sessionId])
    THEN lb.sessionStore[clientInfo.sessionId]
    ELSE NoServer

stickyServer(lb, clientInfo) ==
    IF /\ lb.stickySession
       /\ clientInfo.sessionId # NoSession
       /\ clientInfo.sessionId \in DOMAIN lb.sessionStore
       /\ HasServer(lb.servers, lb.sessionStore[clientInfo.sessionId])
       /\ isAvailable(GetServer(lb.servers, lb.sessionStore[clientInfo.sessionId]))
    THEN lb.sessionStore[clientInfo.sessionId]
    ELSE NoServer

(* "Registrar seleção": counters and addConnection on the chosen backend *)
recordSelection(lb, id) ==
    [lb EXCEPT !.totalRequests = @ + 1,
               !.distributionStats = FnSet(@, id, @[id] + 1),
               !.servers[IndexOf(lb.servers, id)] = addConnection(@)]

(* selectServer that counts the request before looking for a backend *)
selectServer_counted(lb, clientInfo) ==
    LET avail == availableServers(lb)
        sticky == stickyServer(lb, clientInfo)
    IN IF avail = <<>>
       THEN {[ok |-> FALSE, id |-> NoServer,
              lb |-> [lb EXCEPT !.totalRequests = @ + 1]]}
       ELSE IF sticky # NoServer
       THEN {[ok |-> TRUE, id |-> sticky, lb |-> recordSelection(lb, sticky)]}
       ELSE { LET bound == IF lb.stickySession /\ clientInfo.sessionId # NoSession
                           THEN [r.lb EXCEPT !.sessionStore =
                                    FnSet(@, clientInfo.sessionId, r.id)]
                           ELSE r.lb
              IN [ok |-> TRUE, id |-> r.id, lb |-> recordSelection(bound, r.id)]
              : r \in selectByStrategy(lb, avail, clientInfo) }

(* selectServer: the set of outcomes [ok, id, lb]; ok = FALSE is the throw   *)
selectServer(lb, clientInfo) ==
    LET avail == availableServers(lb)
        sticky == stickyServer(lb, clientInfo)
    IN IF avail = <<>>
       THEN {[ok |-> FALSE, id |-> NoServer, lb |-> lb]}
       ELSE IF sticky # NoServer
       THEN {[ok |-> TRUE, id |-> sticky, lb |-> recordSelection(lb, sticky)]}
       ELSE { LET bound == IF lb.stickySession /\ clientInfo.sessionId # NoSession
                           THEN [r.lb EXCEPT !.sessionStore =
                                    FnSet(@, clientInfo.sessionId, r.id)]
                           ELSE r.lb
              IN [ok |-> TRUE, id |-> r.id, lb |-> recordSelection(bound, r.id)]
              : r \in selectByStrategy(lb, avail, clientInfo) }

(* -------------------------- ResilientGrpcClient ------------------------ *)
retryableErrors == {"UNAVAILABLE", "DEADLINE_EXCEEDED", "RESOURCE_EXHAUSTED", "ABORTED"}

(* what a backend can answer to one transport attempt *)
TransportErrors == {"UNAVAILABLE", "INVALID_ARGUMENT"}
NoError == "none"
NoCode == "NO_CODE"

(* constructor(options): an option that is absent or 0 is falsy, so           *)
(* `options.x || default` yields the default; 0 stands for both here.        *)
ResilientGrpcClient(optMaxRetries, optFailureThreshold, optResetTimeout, optCircuitBreaker) ==
    [optMaxRetries |-> optMaxRetries,
     maxRetries |-> IF optMaxRetries = 0 THEN DefaultMaxRetries ELSE optMaxRetries,
     enabled |-> optCircuitBreaker,
     failureThreshold |-> IF optFailureThreshold = 0 THEN DefaultFailureThreshold
                          ELSE optFailureThreshold,
     resetTimeout |-> IF optResetTimeout = 0 THEN DefaultResetTimeout ELSE optResetTimeout,
     state |-> "CLOSED", failures |-> 0,
     lastFailureTime |-> 0,   \* null; null is 0 in `now - lastFailureTime`
     timeoutMs |-> DefaultTimeoutMs,
     totalRequests |-> 0, successfulRequests |-> 0, failedRequests |-> 0,
     retriedRequests |-> 0, circuitBreakerTrips |-> 0]

(* shouldRetry that retries every error *)
shouldRetry_always(code) == TRUE

shouldRetry(code) == code \in retryableErrors

(* isCircuitOpen with the elapsed-time test inverted *)
isCircuitOpen_inverted(x, t) ==
    IF x.state = "OPEN"
    THEN IF t - x.lastFailureTime < x.resetTimeout
         THEN [open |-> FALSE, x |-> [x EXCEPT !.state = "HALF_OPEN"]]
         ELSE [open |-> TRUE, x |-> x]
    ELSE [open |-> FALSE, x |-> x]

(* isCircuitOpen: [open, x]; it is the place OPEN turns HALF_OPEN *)
isCircuitOpen(x, t) ==
    IF x.state = "OPEN"
    THEN IF t - x.lastFailureTime >= x.resetTimeout
         THEN [open |-> FALSE, x |-> [x EXCEPT !.state = "HALF_OPEN"]]
         ELSE [open |-> TRUE, x |-> x]
    ELSE [open |-> FALSE, x |-> x]

onCallSuccess(x) ==
    LET m == [x EXCEPT !.successfulRequests = @ + 1]
    IN IF x.enabled
       THEN [m EXCEPT !.failures = 0,
                      !.state = IF @ = "HALF_OPEN" THEN "CLOSED" ELSE @]
       ELSE m

(* onCallFailure opening one failure late *)
onCallFailure_late(x, t) ==
    LET m == [x EXCEPT !.failedRequests = @ + 1]
    IN IF x.enabled
       THEN LET f == [m EXCEPT !.failures = @ + 1, !.lastFailureTime = t]
            IN IF f.failures > f.failureThreshold
               THEN [f EXCEPT !.state = "OPEN", !.circuitBreakerTrips = @ + 1]
               ELSE f
       ELSE m

onCallFailure(x, t) ==
    LET m == [x EXCEPT !.failedRequests = @ + 1]
    IN IF x.enabled
       THEN LET f == [m EXCEPT !.failures = @ + 1, !.lastFailureTime = t]
            IN IF f.failures >= f.failureThreshold
               THEN [f EXCEPT !.state = "OPEN", !.circuitBreakerTrips = @ + 1]
               ELSE f
       ELSE m

resetCircuitBreaker(x) ==
    [x EXCEPT !.state = "CLOSED", !.failures = 0, !.lastFailureTime = 0]

(* call / streamCall up to the breaker check: [admitted, x] *)
callEnter(x, t) ==
    LET counted == [x EXCEPT !.totalRequests = @ + 1]
        chk == isCircuitOpen(counted, t)
    IN IF counted.enabled
       THEN [admitted |-> ~chk.open, x |-> chk.x]
       ELSE [admitted |-> TRUE, x |-> counted]

(* the catch block counting every failed attempt as a failure of the call *)
attemptFailed_each(x, attempt, code, t) ==
    IF attempt + 1 <= x.maxRetries /\ shouldRetry(code)
    THEN [retry |-> TRUE, attempt |-> attempt + 1,
          x |-> [onCallFailure(x, t) EXCEPT !.retriedRequests = @ + 1]]
    ELSE [retry |-> FALSE, attempt |-> attempt + 1, x |-> onCallFailure(x, t)]

(* the catch block of call's attempt loop: [retry, attempt, x] *)
attemptFailed(x, attempt, code, t) ==
    IF attempt + 1 <= x.maxRetries /\ shouldRetry(code)
    THEN [retry |-> TRUE, attempt |-> attempt + 1,
          x |-> [x EXCEPT !.retriedRequests = @ + 1]]
    ELSE [retry |-> FALSE, attempt |-> attempt + 1, x |-> onCallFailure(x, t)]

(* executeCall: client[method](...).  A generated stub answers what the     *)
(* backend answers; anything else is no function and the call is a          *)
(* TypeError, an error without a code.                                       *)
executeCall(client, backendAnswer) ==
    IF client = "stub" THEN backendAnswer ELSE NoCode

(* ------------------------ LoadBalancedGrpcClient ----------------------- *)
(* clientPool maps a backend id to the list of its handles; handles holds   *)
(* the handle objects, pooled or not, by identity.                           *)
NoHandle == "none"
HandleIds == <<"h1", "h2", "h3", "h4", "h5">>

(* new ResilientGrpcClient(grpcClient, this.resilientOptions): the executor *)
(* reads its options from its first argument, the grpc client, which has    *)
(* none of them, so every option is absent.                                  *)
NewPooledClient(id, t) ==
    [serverId |-> id, inUse |-> FALSE, lastUsed |-> t,
     closed |-> FALSE, x |-> ResilientGrpcClient(0, 0, 0, TRUE)]

PoolOf(pool, id) == IF id \in DOMAIN pool THEN pool[id] ELSE <<>>

FirstIdle(handles, list) ==
    IF \E i \in 1..Len(list) : ~handles[list[i]].inUse
    THEN list[CHOOSE i \in 1..Len(list) :
                /\ ~handles[list[i]].inUse
                /\ \A j \in 1..(i - 1) : handles[list[j]].inUse]
    ELSE NoHandle

(* getClientForServer without the per-server cap *)
getClientForServer_nocap(pool, handles, cap, id, fresh, t) ==
    LET list == PoolOf(pool, id)
        idle == FirstIdle(handles, list)
        create == idle = NoHandle
        h == IF create THEN fresh ELSE idle
        hs == IF create
              THEN [k \in (DOMAIN handles) \cup {fresh} |->
                        IF k = fresh THEN NewPooledClient(id, t) ELSE handles[k]]
              ELSE handles
    IN [handle |-> h,
        pool |-> IF create THEN FnSet(pool, id, Append(list, fresh)) ELSE pool,
        handles |-> [hs EXCEPT ![h].inUse = TRUE, ![h].lastUsed = t]]

(* getClientForServer that takes the first pooled handle, in use or not *)
getClientForServer_anyhandle(pool, handles, cap, id, fresh, t) ==
    LET list == PoolOf(pool, id)
        create == list = <<>>
        h == IF create THEN fresh ELSE list[1]
        hs == IF create
              THEN [k \in (DOMAIN handles) \cup {fresh} |->
                        IF k = fresh THEN NewPooledClient(id, t) ELSE handles[k]]
              ELSE handles
    IN [handle |-> h,
        pool |-> IF create THEN FnSet(pool, id, Append(list, fresh)) ELSE pool,
        handles |-> [hs EXCEPT ![h].inUse = TRUE, ![h].lastUsed = t]]

(* getClientForServer(server): [handle, pool, handles]; `fresh` names the   *)
(* object a `new` would create                                               *)
getClientForServer(pool, handles, cap, id, fresh, t) ==
    LET list == PoolOf(pool, id)
        idle == FirstIdle(handles, list)
        create == idle = NoHandle /\ Len(list) < cap
        h == IF create THEN fresh ELSE idle
        hs == IF create
              THEN [k \in (DOMAIN handles) \cup {fresh} |->
                        IF k = fresh THEN NewPooledClient(id, t) ELSE handles[k]]
              ELSE handles
    IN IF h = NoHandle
       THEN [handle |-> NoHandle, pool |-> pool, handles |-> handles]
       ELSE [handle |-> h,
             pool |-> IF create THEN FnSet(pool, id, Append(list, fresh)) ELSE pool,
             handles |-> [hs EXCEPT ![h].inUse = TRUE, ![h].lastUsed = t]]

(* releaseClient that forgets to clear the flag *)
releaseClient_noop(handles, h) == handles

releaseClient(handles, h) ==
    IF h # NoHandle THEN [handles EXCEPT ![h].inUse = FALSE] ELSE handles

SeqRange(list) == {list[i] : i \in 1..Len(list)}

(* removeServerFromPool(serverId): [pool, handles] *)
removeServerFromPool(pool, handles, id) ==
    IF id \in DOMAIN pool
    THEN [pool |-> FnDelete(pool, id),
          handles |-> [k \in DOMAIN handles |->
                         IF k \in SeqRange(pool[id])
                         THEN [handles[k] EXCEPT !.closed = TRUE]
                         ELSE handles[k]]]
    ELSE [pool |-> pool, handles |-> handles]

(* cleanupIdleClients(maxIdleTime): [pool, handles] *)
cleanupIdleClients(pool, handles, t, maxIdleTime) ==
    LET idle(k) == ~handles[k].inUse /\ (t - handles[k].lastUsed) > maxIdleTime
    IN [pool |-> [id \in DOMAIN pool |->
                    FilterSeq(pool[id], [k \in SeqRange(pool[id]) |-> ~idle(k)])],
        handles |-> [k \in DOMAIN handles |->
                       IF \E id \in DOMAIN pool : k \in SeqRange(pool[id]) /\ idle(k)
                       THEN [handles[k] EXCEPT !.closed = TRUE]
                       ELSE handles[k]]]

(* requestMetrics: recordSuccess / recordFailure with updateServerMetrics *)
NewRequestMetrics == [total |-> 0, successful |-> 0, failed |-> 0, byServer |-> EmptyMap]

updateServerMetrics(m, key, success, responseTime) ==
    LET old == IF key \in DOMAIN m.byServer THEN m.byServer[key]
               ELSE [total |-> 0, successful |-> 0, failed |-> 0, totalResponseTime |-> 0]
    IN [m EXCEPT !.byServer = FnSet(@, key,
            [total |-> old.total + 1,
             successful |-> IF success THEN old.successful + 1 ELSE old.successful,
             failed |-> IF success THEN old.failed ELSE old.failed + 1,
             totalResponseTime |-> old.totalResponseTime + responseTime])]

recordSuccess(m, key, responseTime) ==
    updateServerMetrics([m EXCEPT !.successful = @ + 1], key, TRUE, responseTime)

(* recordFailure that forgets the global failed counter *)
recordFailure_silent(m, key, responseTime) ==
    updateServerMetrics(m, key, FALSE, responseTime)

recordFailure(m, key, responseTime) ==
    updateServerMetrics([m EXCEPT !.failed = @ + 1], key, FALSE, responseTime)

(* extendedClientInfo of call(): clientIp falls back to '127.0.0.1' *)
extendedClientInfo(ci) ==
    [sessionId |-> ci.sessionId,
     clientIp |-> IF ci.clientIp = NoIp THEN IpLocal ELSE ci.clientIp]

(* what call() hands to resilientClient.call(methodName, request, metadata):  *)
(* the executor's `client` parameter receives the method name, a string       *)
ClientCallArgument == "methodName"

(* ------------------------ GrpcLoadBalancerGateway ---------------------- *)
(* backendClients maps a client key (one service definition per gateway)     *)
(* to its cached client                                                       *)
getBackendClient(cache, id, t) ==
    IF id \in DOMAIN cache
    THEN [cache EXCEPT ![id].lastUsed = t]
    ELSE FnSet(cache, id, [serverId |-> id, lastUsed |-> t])

removeBackendClient(cache, id) == FnDelete(cache, id)

gatewayCleanupIdleClients(cache, t, maxIdleTime) ==
    [k \in {j \in DOMAIN cache : ~((t - cache[j].lastUsed) > maxIdleTime)} |-> cache[k]]

(* clientInfo of the proxy: extractClientIp gives the peer's ip or 'unknown' *)
gatewayClientInfo(ci) ==
    [sessionId |-> ci.sessionId,
     clientIp |-> IF ci.clientIp = NoIp THEN IpUnknown ELSE ci.clientIp]

(* ------------------------------- state --------------------------------- *)
VARIABLES
    cluster,        \* the BackendCluster: its server instances and whether it set up the gateway
    registry,       \* the service registry: its file and each process's ServiceRegistry
    breaker,        \* the API gateway's CircuitBreaker of one service
    now,            \* Date.now(), in ticks
    x,              \* a ResilientGrpcClient used directly by its callers
    xcalls,         \* the calls made on x, one record per call
    consec,         \* terminal failures of x since the last success or reset
    facade,         \* which facade owns the balancer: "client" or "gateway"
    lb,             \* the facade's GrpcLoadBalancer
    nextGen,        \* BackendServer objects constructed so far
    clientPool,     \* LoadBalancedGrpcClient.clientPool
    handles,        \* the pooled client objects, by identity
    backendClients, \* GrpcLoadBalancerGateway.backendClients
    metrics,        \* requestMetrics / gatewayMetrics
    calls,          \* the facade calls, one record per call
    probes,         \* checkServerHealth calls in flight
    probeRounds,    \* performHealthChecks rounds started
    picks           \* what selectServer gave its direct callers, in order

execVars == <<x, xcalls, consec>>
svcVars == <<cluster, registry, breaker>>
facadeVars == <<facade, lb, nextGen, clientPool, handles, backendClients, metrics,
                calls, probes, probeRounds, picks>>
vars == <<cluster, registry, breaker, now, x, xcalls, consec, facade, lb, nextGen, clientPool, handles,
          backendClients, metrics, calls, probes, probeRounds, picks>>

IdleExecCall ==
    [pc |-> "idle", kind |-> "unary", attempt |-> 0, lastError |-> NoError,
     transports |-> 0, delays |-> 0, trial |-> FALSE, endState |-> "none",
     deadline |-> 0, outcomes |-> 0]

IdleCall ==
    [pc |-> "idle", server |-> NoServer, handle |-> NoHandle, start |-> 0,
     entered |-> "none", attempt |-> 0, lastError |-> NoError, answer |-> "none",
     completions |-> 0, selAvail |-> TRUE, breakerAtEntry |-> "none",
     transports |-> 0]

(* ------------------- ServiceRegistry (shared file) ---------------------- *)
(* every process holds its own ServiceRegistry object over the same file;    *)
(* the registry's clock counts minutes                                       *)
ServiceNames == <<"user-service", "item-service", "list-service", "api-gateway">>
Services == {ServiceNames[i] : i \in 1..NumServices}
Processes == Services
NoFile == [exists |-> FALSE, services |-> EmptyMap]

NewRegistry ==
    [clock |-> 0, file |-> NoFile,
     up |-> [p \in Processes |-> FALSE],
     services |-> [p \in Processes |-> EmptyMap],
     op |-> "none", by |-> "none"]

(* saveRegistry: the file becomes this process's services *)
saveRegistry(reg, p) ==
    [reg EXCEPT !.file = [exists |-> TRUE, services |-> reg.services[p]]]

(* loadRegistry: read the file, drop what has no heartbeat for more than    *)
(* two minutes, write the result back; nothing happens without a file        *)
loadRegistry(reg, p) ==
    IF reg.file.exists
    THEN LET read == reg.file.services
             kept == {n \in DOMAIN read :
                         ~(reg.clock - read[n].lastHeartbeat > StaleHeartbeat)}
         IN saveRegistry([reg EXCEPT !.services[p] = [n \in kept |-> read[n]]], p)
    ELSE reg

(* checkServiceHealth of every service of this process, then saveRegistry;  *)
(* `failing` are the services whose probe fails                              *)
performHealthChecks(reg, p, failing) ==
    LET mine == reg.services[p]
        kept == {n \in DOMAIN mine :
                    ~(n \in failing /\ reg.clock - mine[n].lastHeartbeat > InactiveHeartbeat)}
    IN saveRegistry(
         [reg EXCEPT !.services[p] =
            [n \in kept |-> [mine[n] EXCEPT !.status =
                               IF n \in failing THEN "unhealthy" ELSE "healthy"]]], p)

(* CircuitBreaker of the API gateway, its clock in units of 20 s, and the   *)
(* proxied requests that go through it                                       *)
Requests == 1..NumRequests

NewBreaker ==
    [state |-> "CLOSED", failureCount |-> 0, lastFailureTime |-> 0,
     clock |-> 0, openedAt |-> 0,
     pc |-> [r \in Requests |-> "idle"]]

(* BackendCluster: servers is the Map of its BackendServerInstance objects  *)
(* in insertion order; restores are the timers of simulateServerFailure      *)
NewCluster == [servers |-> <<>>, gateway |-> FALSE, restores |-> {}, stopped |-> {}]

ServicesConstructed ==
    /\ cluster = NewCluster
    /\ registry = NewRegistry
    /\ breaker = NewBreaker

(* the facade as constructed, before any addServer *)
FacadeConstructed(kind, strategy, sticky) ==
    /\ facade = kind
    /\ lb = NewLoadBalancer(strategy, sticky)
    /\ nextGen = 0
    /\ clientPool = EmptyMap
    /\ handles = EmptyMap
    /\ backendClients = EmptyMap
    /\ metrics = NewRequestMetrics
    /\ calls = [c \in Calls |-> IdleCall]
    /\ probes = {}
    /\ probeRounds = 0
    /\ picks = <<>>

ExecConstructed(maxRetries, enabled) ==
    /\ x = ResilientGrpcClient(maxRetries, FailureThreshold, ResetTimeout, enabled)
    /\ xcalls = [c \in ExecCalls |-> IdleExecCall]
    /\ consec = 0

(* the breaker under test: one retry per call, breaker enabled *)
InitExec ==
    /\ now = 0
    /\ ExecConstructed(1, TRUE)
    /\ ServicesConstructed
    /\ FacadeConstructed("client", "round_robin", FALSE)

(* a caller issues a call when its previous one is over *)
CanStart(c) ==
    /\ xcalls[c].pc \in {"idle", "returned", "thrown", "rejected"}
    /\ x.totalRequests < MaxExecRequests

Tick(limit) ==
    /\ now < limit
    /\ now' = now + 1
    /\ UNCHANGED <<execVars, facadeVars, svcVars>>

(* call(client, method, request): the synchronous part up to the first await *)
ExecCallStart(c) ==
    /\ CanStart(c)
    /\ LET e == callEnter(x, now)
       IN /\ x' = e.x
          /\ xcalls' = [xcalls EXCEPT ![c] =
                IF e.admitted
                THEN [IdleExecCall EXCEPT !.pc = "transport", !.transports = 1,
                                          !.trial = (x.state = "OPEN"),
                                          !.deadline = now + x.timeoutMs]
                ELSE [IdleExecCall EXCEPT !.pc = "rejected",
                                          !.lastError = "UNAVAILABLE"]]
    /\ UNCHANGED <<now, consec, facadeVars, svcVars>>

(* the transport answers one attempt of a unary call *)
ExecCallResult(c) ==
    /\ xcalls[c].pc = "transport"
    /\ \E answer \in {"OK"} \cup TransportErrors :
         LET out == executeCall("stub", answer)
         IN IF out = "OK"
            THEN /\ x' = onCallSuccess(x)
                 /\ consec' = 0
                 /\ xcalls' = [xcalls EXCEPT ![c] =
                       [@ EXCEPT !.pc = "returned", !.endState = x'.state,
                                 !.deadline = 0, !.outcomes = 1]]
            ELSE LET f == attemptFailed(x, xcalls[c].attempt, out, now)
                 IN /\ x' = f.x
                    /\ consec' = IF f.retry THEN consec ELSE consec + 1
                    /\ xcalls' = [xcalls EXCEPT ![c] =
                          [@ EXCEPT !.pc = IF f.retry THEN "delay" ELSE "thrown",
                                    !.attempt = f.attempt,
                                    !.lastError = out,
                                    !.endState = IF f.retry THEN @ ELSE x'.state,
                                    !.deadline = IF f.retry THEN @ ELSE 0,
                                    !.outcomes = IF f.retry THEN @ ELSE 1]]
    /\ UNCHANGED <<now, facadeVars, svcVars>>

(* the backoff delay of a retry elapses and the next attempt is issued     *)
(* with the callOptions object built when the call was entered              *)
ExecRetry(c) ==
    /\ xcalls[c].pc = "delay"
    /\ xcalls' = [xcalls EXCEPT ![c] =
          [@ EXCEPT !.pc = "transport", !.transports = @ + 1, !.delays = @ + 1]]
    /\ UNCHANGED <<now, x, consec, facadeVars, svcVars>>

(* streamCall(client, method, request); opening the stream may throw *)
ExecStreamStart(c) ==
    /\ CanStart(c)
    /\ LET e == callEnter(x, now)
       IN IF ~e.admitted
          THEN /\ x' = e.x
               /\ xcalls' = [xcalls EXCEPT ![c] =
                     [IdleExecCall EXCEPT !.pc = "rejected", !.kind = "stream",
                                          !.lastError = NoCode]]
               /\ UNCHANGED consec
          ELSE \E throws \in BOOLEAN :
               IF throws
               THEN /\ x' = onCallFailure(e.x, now)
                    /\ consec' = consec + 1
                    /\ xcalls' = [xcalls EXCEPT ![c] =
                          [IdleExecCall EXCEPT
                                    !.pc = "thrown", !.kind = "stream", !.transports = 1,
                                    !.attempt = 1, !.lastError = NoCode,
                                    !.trial = (x.state = "OPEN"), !.endState = x'.state,
                                    !.outcomes = 1]]
               ELSE /\ x' = e.x
                    /\ xcalls' = [xcalls EXCEPT ![c] =
                          [IdleExecCall EXCEPT
                                    !.pc = "streaming", !.kind = "stream", !.transports = 1,
                                    !.trial = (x.state = "OPEN")]]
                    /\ UNCHANGED consec
    /\ UNCHANGED <<now, facadeVars, svcVars>>

(* stream.on('error') *)
ExecStreamError(c) ==
    /\ xcalls[c].pc = "streaming"
    /\ \E code \in TransportErrors :
         /\ x' = onCallFailure(x, now)
         /\ xcalls' = [xcalls EXCEPT ![c] =
               [@ EXCEPT !.pc = "thrown", !.attempt = 1, !.lastError = code,
                         !.endState = x'.state, !.outcomes = @ + 1]]
    /\ consec' = consec + 1
    /\ UNCHANGED <<now, facadeVars, svcVars>>

(* stream.on('end') *)
ExecStreamEnd(c) ==
    /\ xcalls[c].pc = "streaming"
    /\ x' = onCallSuccess(x)
    /\ xcalls' = [xcalls EXCEPT ![c] =
          [@ EXCEPT !.pc = "returned", !.endState = x'.state, !.outcomes = @ + 1]]
    /\ consec' = 0
    /\ UNCHANGED <<now, facadeVars, svcVars>>

ExecManualReset ==
    /\ x.state # "CLOSED"
    /\ x' = resetCircuitBreaker(x)
    /\ consec' = 0
    /\ UNCHANGED <<now, xcalls, facadeVars, svcVars>>

NextExec ==
    \/ Tick(MaxTime)
    \/ \E c \in ExecCalls : ExecCallStart(c)
    \/ \E c \in ExecCalls : ExecCallResult(c)
    \/ \E c \in ExecCalls : ExecRetry(c)
    \/ \E c \in ExecCalls : ExecStreamStart(c)
    \/ \E c \in ExecCalls : ExecStreamError(c)
    \/ \E c \in ExecCalls : ExecStreamEnd(c)
    \/ ExecManualReset

SpecExec == InitExec /\ [][NextExec]_vars

(* the retry loop under test: every configured maxRetries, breaker on or off *)
ExecMaxRetriesOptions == {0, 1, 2}

InitRetry ==
    /\ now = 0
    /\ \E mr \in ExecMaxRetriesOptions, en \in BOOLEAN : ExecConstructed(mr, en)
    /\ ServicesConstructed
    /\ FacadeConstructed("client", "round_robin", FALSE)

NextRetry ==
    \/ Tick(MaxTime)
    \/ \E c \in ExecCalls : ExecCallStart(c)
    \/ \E c \in ExecCalls : ExecCallResult(c)
    \/ \E c \in ExecCalls : ExecRetry(c)

SpecRetry == InitRetry /\ [][NextRetry]_vars

(* --------------------------- facade actions ---------------------------- *)
(* options of addServer: none, or a weight of 2 and room for one connection *)
BackendOptions == {[weight |-> 0, maxConnections |-> 0],
                   [weight |-> 2, maxConnections |-> 1]}
ClientInfos == [sessionId : {NoSession} \cup SessionIds, clientIp : {NoIp, IpA, IpB}]
BackendAnswers == {"OK", "UNAVAILABLE"}
SweepIdleOptions == {0}

(* options.maxClientsPerServer || 5 *)
maxClientsPerServer ==
    IF MaxClientsPerServer = 0 THEN DefaultMaxClientsPerServer ELSE MaxClientsPerServer

(* a promise continuation runs before any timer or I/O callback: while a    *)
(* client call waits only for its executor's promise, no callback runs       *)
NoPendingContinuation == \A c \in Calls : calls[c].pc # "exec"

(* calls are numbered in the order they are issued; a call's startTime is   *)
(* a local of the call and is dropped (0) when the call is over             *)
NextCall(c) == calls[c].pc = "idle" /\ \A d \in Calls : d < c => calls[d].pc # "idle"

(* facade.addServer / addBackendServer *)
AddServer(id, optWeight, optMaxConn) ==
    /\ nextGen < MaxAdds
    /\ nextGen' = nextGen + 1
    /\ lb' = addServer(lb, id, nextGen + 1, optWeight, optMaxConn)
    /\ UNCHANGED <<now, execVars, svcVars, facade, picks, clientPool, handles, backendClients, metrics,
                   calls, probes, probeRounds>>

(* facade.removeServer / removeBackendServer *)
RemoveServer(id) ==
    /\ HasServer(lb.servers, id)
    /\ LET r == removeServerFromPool(clientPool, handles, id)
       IN IF facade = "client"
          THEN /\ clientPool' = r.pool
               /\ handles' = r.handles
               /\ UNCHANGED backendClients
          ELSE /\ backendClients' = removeBackendClient(backendClients, id)
               /\ UNCHANGED <<clientPool, handles>>
    /\ lb' = removeServer(lb, id)
    /\ UNCHANGED <<now, execVars, svcVars, facade, picks, nextGen, metrics, calls, probes, probeRounds>>

(* loadBalancer.setServerEnabled *)
SetServerEnabled(id, enabled) ==
    /\ HasServer(lb.servers, id)
    /\ GetServer(lb.servers, id).enabled # enabled
    /\ lb' = setServerEnabled(lb, id, enabled)
    /\ UNCHANGED <<now, execVars, svcVars, facade, picks, nextGen, clientPool, handles, backendClients,
                   metrics, calls, probes, probeRounds>>

(* performHealthChecks: one checkServerHealth per registered server object *)
PerformHealthChecks ==
    /\ NoPendingContinuation
    /\ probeRounds < MaxProbes
    /\ probes = {}
    /\ lb.servers # <<>>
    /\ probeRounds' = probeRounds + 1
    /\ probes' = {[id |-> lb.servers[i].id, gen |-> lb.servers[i].gen, start |-> now] :
                    i \in 1..Len(lb.servers)}
    /\ UNCHANGED <<now, execVars, svcVars, facade, picks, lb, nextGen, clientPool, handles,
                   backendClients, metrics, calls>>

(* checkServerHealth whose failure marks every registered backend *)
probeUpdate_spread(lbx, pr, healthy, t) ==
    IF healthy
    THEN IF HasServer(lbx.servers, pr.id) /\ GetServer(lbx.servers, pr.id).gen = pr.gen
         THEN [lbx EXCEPT !.servers[IndexOf(lbx.servers, pr.id)] =
                 recordRequest([@ EXCEPT !.health = HEALTHY], TRUE, t - pr.start)]
         ELSE lbx
    ELSE [lbx EXCEPT !.servers =
            [i \in 1..Len(lbx.servers) |->
                recordRequest([lbx.servers[i] EXCEPT !.health = UNHEALTHY], FALSE, 0)]]

(* checkServerHealth settles: it writes to the server object it was given,  *)
(* and the facade's serverUnhealthy listener drops that id's clients         *)
probeUpdate(lbx, pr, healthy, t) ==
    IF HasServer(lbx.servers, pr.id) /\ GetServer(lbx.servers, pr.id).gen = pr.gen
    THEN [lbx EXCEPT !.servers[IndexOf(lbx.servers, pr.id)] =
            IF healthy
            THEN recordRequest([@ EXCEPT !.health = HEALTHY], TRUE, t - pr.start)
            ELSE recordRequest([@ EXCEPT !.health = UNHEALTHY], FALSE, 0)]
    ELSE lbx

ProbeResult(pr, healthy) ==
    /\ NoPendingContinuation
    /\ pr \in probes
    /\ probes' = probes \ {pr}
    /\ lb' = probeUpdate(lb, pr, healthy, now)
    /\ LET r == removeServerFromPool(clientPool, handles, pr.id)
       IN IF healthy
          THEN UNCHANGED <<clientPool, handles, backendClients>>
          ELSE IF facade = "client"
          THEN /\ clientPool' = r.pool
               /\ handles' = r.handles
               /\ UNCHANGED backendClients
          ELSE /\ backendClients' = removeBackendClient(backendClients, pr.id)
               /\ UNCHANGED <<clientPool, handles>>
    /\ UNCHANGED <<now, execVars, svcVars, facade, picks, nextGen, metrics, calls, probeRounds>>

(* cleanupIdleClients(maxIdleTime) of either facade *)
CleanupIdleClients(maxIdleTime) ==
    /\ LET r == cleanupIdleClients(clientPool, handles, now, maxIdleTime)
       IN IF facade = "client"
          THEN /\ clientPool' = r.pool
               /\ handles' = r.handles
               /\ UNCHANGED backendClients
          ELSE /\ backendClients' = gatewayCleanupIdleClients(backendClients, now, maxIdleTime)
               /\ UNCHANGED <<clientPool, handles>>
    /\ <<clientPool', handles', backendClients'>> # <<clientPool, handles, backendClients>>
    /\ UNCHANGED <<now, execVars, svcVars, facade, picks, lb, nextGen, metrics, calls, probes, probeRounds>>

(* LoadBalancedGrpcClient.call up to `await resilientClient.call(...)`       *)
ClientCallBegin(c, ci, answer) ==
    /\ facade = "client"
    /\ NextCall(c)
    /\ \E sel \in selectServer(lb, extendedClientInfo(ci)) :
         LET counted == [metrics EXCEPT !.total = @ + 1]
             g == getClientForServer(clientPool, handles, maxClientsPerServer,
                                     sel.id, HandleIds[c], now)
         IN IF ~sel.ok
            THEN \* selectServer threw: catch with no server selected
                 /\ metrics' = recordFailure(counted, "unknown", 0)
                 /\ calls' = [calls EXCEPT ![c] =
                       [@ EXCEPT !.pc = "failed",
                                 !.lastError = "NO_SERVERS"]]
                 /\ UNCHANGED <<lb, clientPool, handles>>
            ELSE IF g.handle = NoHandle
            THEN \* no client for the server: throw, catch
                 /\ metrics' = recordFailure(counted, sel.id, 0)
                 /\ lb' = onRequestCompleted(sel.lb, sel.id, FALSE, 0)
                 /\ calls' = [calls EXCEPT ![c] =
                       [@ EXCEPT !.pc = "failed", !.server = sel.id,
                                 !.selAvail = isAvailable(GetServer(lb.servers, sel.id)),
                                 !.completions = 1, !.lastError = "NO_CLIENT"]]
                 /\ UNCHANGED <<clientPool, handles>>
            ELSE LET hx == g.handles[g.handle].x
                     e == callEnter(hx, now)
                 IN /\ metrics' = counted
                    /\ lb' = sel.lb
                    /\ clientPool' = g.pool
                    /\ handles' = [g.handles EXCEPT ![g.handle].x = e.x]
                    /\ calls' = [calls EXCEPT ![c] =
                          [@ EXCEPT !.pc = "exec", !.start = now, !.server = sel.id,
                                    !.selAvail = isAvailable(GetServer(lb.servers, sel.id)),
                                    !.handle = g.handle,
                                    !.breakerAtEntry = hx.state,
                                    !.entered = IF e.admitted THEN "transport" ELSE "rejected",
                                    !.transports = IF e.admitted /\ ClientCallArgument = "stub"
                                                   THEN 1 ELSE 0,
                                    !.answer = answer]]
    /\ UNCHANGED <<now, execVars, svcVars, facade, picks, nextGen, backendClients, probes, probeRounds>>

(* the executor's promise settles: call()'s success path or catch, finally  *)
ClientCallSettle(c) ==
    /\ facade = "client"
    /\ calls[c].pc = "exec"
    /\ LET h == calls[c].handle
           id == calls[c].server
           rt == now - calls[c].start
           out == IF calls[c].entered = "rejected" THEN "UNAVAILABLE"
                  ELSE executeCall(ClientCallArgument, calls[c].answer)
           f == attemptFailed(handles[h].x, calls[c].attempt, out, now)
       IN IF calls[c].entered = "transport" /\ out = "OK"
          THEN /\ handles' = releaseClient(
                     [handles EXCEPT ![h].x = onCallSuccess(@)], h)
               /\ metrics' = recordSuccess(metrics, id, rt)
               /\ lb' = onRequestCompleted(lb, id, TRUE, rt)
               /\ calls' = [calls EXCEPT ![c] =
                     [@ EXCEPT !.pc = "returned", !.start = 0, !.completions = @ + 1]]
          ELSE IF calls[c].entered = "transport" /\ f.retry
          THEN \* the attempt loop goes round: delay, then executeCall again
               /\ handles' = [handles EXCEPT ![h].x = f.x]
               /\ calls' = [calls EXCEPT ![c] =
                     [@ EXCEPT !.attempt = f.attempt, !.lastError = out,
                               !.transports = IF ClientCallArgument = "stub"
                                              THEN @ + 1 ELSE @]]
               /\ UNCHANGED <<metrics, lb>>
          ELSE /\ handles' = releaseClient(
                     IF calls[c].entered = "transport"
                     THEN [handles EXCEPT ![h].x = f.x] ELSE handles, h)
               /\ metrics' = recordFailure(metrics, id, rt)
               /\ lb' = onRequestCompleted(lb, id, FALSE, rt)
               /\ calls' = [calls EXCEPT ![c] =
                     [@ EXCEPT !.pc = "failed", !.start = 0, !.completions = @ + 1,
                               !.attempt = IF calls[c].entered = "transport"
                                           THEN f.attempt ELSE @,
                               !.lastError = out]]
    /\ UNCHANGED <<now, execVars, svcVars, facade, picks, nextGen, clientPool, backendClients, probes,
                   probeRounds>>

(* the gateway's method proxy up to backendCall.end(callback)                *)
GatewayCallBegin(c, ci, throws) ==
    /\ facade = "gateway"
    /\ NextCall(c)
    /\ \E sel \in selectServer(lb, gatewayClientInfo(ci)) :
         LET counted == [metrics EXCEPT !.total = @ + 1]
         IN IF ~sel.ok
            THEN /\ ~throws
                 /\ metrics' = [counted EXCEPT !.failed = @ + 1]
                 /\ calls' = [calls EXCEPT ![c] =
                       [@ EXCEPT !.pc = "failed",
                                 !.lastError = "NO_SERVERS"]]
                 /\ UNCHANGED <<lb, backendClients>>
            ELSE /\ lb' = sel.lb
                 /\ backendClients' = getBackendClient(backendClients, sel.id, now)
                 /\ IF throws
                    THEN \* backendClient[methodName](...) or .end(...) threw: catch
                         /\ metrics' = [counted EXCEPT !.failed = @ + 1]
                         /\ calls' = [calls EXCEPT ![c] =
                               [@ EXCEPT !.pc = "failed", !.server = sel.id,
                                         !.selAvail =
                                             isAvailable(GetServer(lb.servers, sel.id)),
                                         !.lastError = "GATEWAY_ERROR"]]
                    ELSE /\ metrics' = counted
                         /\ calls' = [calls EXCEPT ![c] =
                               [@ EXCEPT !.pc = "await", !.start = now, !.server = sel.id,
                                         !.selAvail =
                                             isAvailable(GetServer(lb.servers, sel.id)),
                                         !.transports = 1]]
    /\ UNCHANGED <<now, execVars, svcVars, facade, picks, nextGen, clientPool, handles, probes,
                   probeRounds>>

(* the callback given to backendCall.end runs *)
GatewayCallSettle(c) ==
    /\ facade = "gateway"
    /\ calls[c].pc = "await"
    /\ \E answer \in BackendAnswers :
         LET id == calls[c].server
             rt == now - calls[c].start
         IN /\ metrics' = IF answer = "OK"
                          THEN [metrics EXCEPT !.successful = @ + 1]
                          ELSE [metrics EXCEPT !.failed = @ + 1]
            /\ lb' = onRequestCompleted(lb, id, answer = "OK", rt)
            /\ calls' = [calls EXCEPT ![c] =
                  [@ EXCEPT !.pc = IF answer = "OK" THEN "returned" ELSE "failed",
                            !.start = 0, !.completions = @ + 1, !.answer = answer,
                            !.lastError = IF answer = "OK" THEN NoError ELSE answer]]
    /\ UNCHANGED <<now, execVars, svcVars, facade, picks, nextGen, clientPool, handles, backendClients,
                   probes, probeRounds>>

Init ==
    /\ now = 0
    /\ ExecConstructed(0, TRUE)
    /\ ServicesConstructed
    /\ \E kind \in {"client", "gateway"}, st \in Strategies, sticky \in BOOLEAN :
          FacadeConstructed(kind, st, sticky)

Next ==
    \/ Tick(MaxFacadeTime)
    \/ \E id \in Backends, o \in BackendOptions :
          AddServer(id, o.weight, o.maxConnections)
    \/ \E id \in Backends : RemoveServer(id)
    \/ \E id \in Backends, en \in BOOLEAN : SetServerEnabled(id, en)
    \/ PerformHealthChecks
    \/ \E pr \in probes, healthy \in BOOLEAN : ProbeResult(pr, healthy)
    \/ \E maxIdle \in SweepIdleOptions : CleanupIdleClients(maxIdle)
    \/ \E c \in Calls, ci \in ClientInfos, answer \in BackendAnswers :
          ClientCallBegin(c, ci, answer)
    \/ \E c \in Calls : ClientCallSettle(c)
    \/ \E c \in Calls, ci \in ClientInfos, throws \in BOOLEAN :
          GatewayCallBegin(c, ci, throws)
    \/ \E c \in Calls : GatewayCallSettle(c)

Spec == Init /\ [][Next]_vars

(* the embedded client and its pool: round robin, default backend options,  *)
(* callers that pass no clientInfo, backends that answer OK; handles are     *)
(* evicted by removeServer and by the idle sweep                             *)
PoolClientInfo == [sessionId |-> NoSession, clientIp |-> NoIp]

InitPool ==
    /\ now = 0
    /\ ExecConstructed(0, TRUE)
    /\ ServicesConstructed
    /\ FacadeConstructed("client", "round_robin", FALSE)

NextPool ==
    \/ Tick(MaxFacadeTime)
    \/ \E id \in PoolBackends : AddServer(id, 0, 0)
    \/ \E id \in PoolBackends : RemoveServer(id)
    \/ \E maxIdle \in SweepIdleOptions : CleanupIdleClients(maxIdle)
    \/ \E c \in Calls : ClientCallBegin(c, PoolClientInfo, "OK")
    \/ \E c \in Calls : ClientCallSettle(c)

SpecPool == InitPool /\ [][NextPool]_vars

(* the gateway: its proxy, its client cache, probes and sweeps *)
InitGateway ==
    /\ now = 0
    /\ ExecConstructed(0, TRUE)
    /\ ServicesConstructed
    /\ FacadeConstructed("gateway", "round_robin", FALSE)

NextGateway ==
    \/ Tick(MaxFacadeTime)
    \/ \E id \in PoolBackends : AddServer(id, 0, 0)
    \/ \E id \in PoolBackends : RemoveServer(id)
    \/ PerformHealthChecks
    \/ \E pr \in probes, healthy \in BOOLEAN : ProbeResult(pr, healthy)
    \/ \E maxIdle \in SweepIdleOptions : CleanupIdleClients(maxIdle)
    \/ \E c \in Calls, ci \in ClientInfos, throws \in BOOLEAN :
          GatewayCallBegin(c, ci, throws)
    \/ \E c \in Calls : GatewayCallSettle(c)

SpecGateway == InitGateway /\ [][NextGateway]_vars

(* the balancer behind the gateway, under every strategy, with and without  *)
(* sticky sessions, with weights and connection limits; the proxied calls    *)
(* reach their backend                                                       *)
InitBalancer ==
    /\ now = 0
    /\ ExecConstructed(0, TRUE)
    /\ ServicesConstructed
    /\ \E st \in Strategies, sticky \in BOOLEAN : FacadeConstructed("gateway", st, sticky)

NextBalancer ==
    \/ \E id \in Backends, o \in BackendOptions :
          AddServer(id, o.weight, o.maxConnections)
    \/ \E id \in Backends : RemoveServer(id)
    \/ \E id \in Backends, en \in BOOLEAN : SetServerEnabled(id, en)
    \/ PerformHealthChecks
    \/ \E pr \in probes, healthy \in BOOLEAN : ProbeResult(pr, healthy)
    \/ \E c \in Calls, ci \in ClientInfos : GatewayCallBegin(c, ci, FALSE)
    \/ \E c \in Calls : GatewayCallSettle(c)

SpecBalancer == InitBalancer /\ [][NextBalancer]_vars

(* ---------------------- claims on the executor ------------------------- *)

C5_OpenRejectsWithoutTransport ==
    [][(/\ x.enabled
        /\ x.state = "OPEN"
        /\ now - x.lastFailureTime < x.resetTimeout
        /\ x'.totalRequests # x.totalRequests) =>
          /\ x' = [x EXCEPT !.totalRequests = @ + 1]
          /\ \E c \in ExecCalls :
                /\ xcalls'[c].pc = "rejected"
                /\ xcalls'[c].transports = 0
                /\ \A d \in ExecCalls \ {c} : xcalls'[d] = xcalls[d]]_vars

C5_Witness ==
    /\ x.state = "OPEN"
    /\ now - x.lastFailureTime < x.resetTimeout
    /\ \E c, d \in ExecCalls :
          /\ xcalls[c].pc = "rejected" /\ xcalls[c].kind = "unary"
          /\ xcalls[d].pc = "rejected" /\ xcalls[d].kind = "stream"

(* C6: the call admitted when resetTimeout has elapsed on an OPEN breaker    *)
(* (the HALF_OPEN trial) leaves the breaker CLOSED if it succeeds and OPEN   *)
(* if it fails terminally, whatever other calls do in the meantime.          *)
C6_TrialDecidesBreaker ==
    \A c \in ExecCalls :
        xcalls[c].trial =>
            /\ (xcalls[c].pc = "returned" => xcalls[c].endState = "CLOSED")
            /\ (xcalls[c].pc = "thrown" => xcalls[c].endState = "OPEN")

(* C7: a unary call whose every attempt failed with a retryable error has    *)
(* made exactly (configured maxRetries) + 1 transport attempts, one backoff  *)
(* delay before each retry, when it throws its last error.                   *)
C7_ExactlyMaxRetriesPlusOne ==
    \A c \in ExecCalls :
        (xcalls[c].pc = "thrown" /\ xcalls[c].lastError \in retryableErrors) =>
            /\ xcalls[c].transports = x.optMaxRetries + 1
            /\ xcalls[c].delays = x.optMaxRetries


(* ------------------------ claims on the facades ------------------------ *)
Finished(c) == calls[c].pc \in {"returned", "failed"}

(* selections of a backend id, and the completions reported for them *)
RECURSIVE SumCompletions(_, _)
SumCompletions(cs, id) ==
    IF cs = {} THEN 0
    ELSE LET c == CHOOSE d \in cs : TRUE
         IN (IF calls[c].server = id THEN calls[c].completions ELSE 0)
            + SumCompletions(cs \ {c}, id)

Selections(id) == Cardinality({c \in Calls : calls[c].server = id})
Completions(id) == SumCompletions(Calls, id)

(* C1: a facade call that selected a backend and is over has reported        *)
(* exactly one onRequestCompleted for it, whatever its outcome; a call still *)
(* under way has reported none.                                              *)
C1_OneCompletionPerSelection ==
    \A c \in Calls :
        calls[c].server # NoServer =>
            /\ (Finished(c) => calls[c].completions = 1)
            /\ (~Finished(c) => calls[c].completions = 0)

(* C2: every registered backend's currentConnections is >= 0 and equals the  *)
(* selections of that backend minus the completions reported for it.         *)
C2_ConnectionAccounting ==
    \A i \in 1..Len(lb.servers) :
        /\ lb.servers[i].currentConnections >= 0
        /\ lb.servers[i].currentConnections =
              Selections(lb.servers[i].id) - Completions(lb.servers[i].id)

(* C3: every backend selectServer returned was available when selected, and  *)
(* no backend holds more connections than its maxConnections.                *)
C3_OnlyAvailableSelected ==
    /\ \A c \in Calls : calls[c].server # NoServer => calls[c].selAvail
    /\ \A i \in 1..Len(lb.servers) :
          lb.servers[i].currentConnections <= lb.servers[i].maxConnections

(* C8: an embedded-client call that obtained a handle with a CLOSED breaker  *)
(* for a backend that answers OK has invoked the method on the backend once, *)
(* has returned, and is counted as successful globally and for the backend.  *)
C8_CallReachesBackend ==
    \A c \in Calls :
        (/\ Finished(c)
         /\ calls[c].handle # NoHandle
         /\ calls[c].breakerAtEntry = "CLOSED"
         /\ calls[c].answer = "OK") =>
            /\ calls[c].pc = "returned"
            /\ calls[c].transports = 1
            /\ metrics.successful >= 1
            /\ calls[c].server \in DOMAIN metrics.byServer
            /\ metrics.byServer[calls[c].server].successful >= 1

(* C9: for every backend id the pool holds at most maxClientsPerServer       *)
(* handles, so at most that many of them are in use.                         *)
C9_PoolWithinCap ==
    \A id \in DOMAIN clientPool :
        /\ Len(clientPool[id]) <= maxClientsPerServer
        /\ Cardinality({k \in SeqRange(clientPool[id]) : handles[k].inUse})
              <= maxClientsPerServer

C9_Witness ==
    \E c \in Calls :
        /\ calls[c].lastError = "NO_CLIENT"
        /\ Len(PoolOf(clientPool, calls[c].server)) = maxClientsPerServer
        /\ \A k \in SeqRange(PoolOf(clientPool, calls[c].server)) : handles[k].inUse

(* C10: a handle marked in use is held by a call still in flight: a call     *)
(* that is over has released its handle, and with no call in flight no       *)
(* pooled handle is in use.                                                  *)
C10_ReleasedOnReturn ==
    /\ \A k \in DOMAIN handles :
          handles[k].inUse => \E c \in Calls : calls[c].pc = "exec" /\ calls[c].handle = k
    /\ (\A c \in Calls : calls[c].pc # "exec") =>
          \A id \in DOMAIN clientPool :
              \A k \in SeqRange(clientPool[id]) : ~handles[k].inUse

C10_Witness ==
    /\ \A c \in Calls : calls[c].pc # "exec"
    /\ \E c \in Calls :
          /\ Finished(c)
          /\ calls[c].handle # NoHandle
          /\ calls[c].handle \in SeqRange(PoolOf(clientPool, calls[c].server))
          /\ ~handles[calls[c].handle].inUse


(* ------------------ removal of a backend and the pools ------------------ *)
(* loadBalancer.removeServer called on the facade's balancer itself: it      *)
(* emits serverRemoved, which neither facade listens to                      *)
BalancerRemoveServer(id) ==
    /\ HasServer(lb.servers, id)
    /\ lb' = removeServer(lb, id)
    /\ UNCHANGED <<now, execVars, svcVars, facade, picks, nextGen, clientPool, handles, backendClients,
                   metrics, calls, probes, probeRounds>>

(* either facade over round robin, with removals at both levels *)
InitRemoval ==
    /\ now = 0
    /\ ExecConstructed(0, TRUE)
    /\ ServicesConstructed
    /\ \E kind \in {"client", "gateway"} : FacadeConstructed(kind, "round_robin", FALSE)

NextRemoval ==
    \/ \E id \in Backends : AddServer(id, 0, 0)
    \/ \E id \in Backends : RemoveServer(id)
    \/ \E id \in Backends : BalancerRemoveServer(id)
    \/ \E c \in Calls : ClientCallBegin(c, PoolClientInfo, "OK")
    \/ \E c \in Calls : ClientCallSettle(c)
    \/ \E c \in Calls : GatewayCallBegin(c, PoolClientInfo, FALSE)
    \/ \E c \in Calls : GatewayCallSettle(c)

SpecRemoval == InitRemoval /\ [][NextRemoval]_vars

(* C11: a backend that is not registered (it was removed, by a facade or by  *)
(* the balancer's removeServer) has no pooled handle and no cached client:   *)
(* its pool size is 0.                                                       *)
C11_RemovedBackendHasNoHandles ==
    /\ \A id \in DOMAIN clientPool :
          ~HasServer(lb.servers, id) => Len(clientPool[id]) = 0
    /\ \A id \in DOMAIN backendClients : HasServer(lb.servers, id)


(* ----------------- the balancer used by a direct caller ----------------- *)
IdsOf(servers) == [i \in 1..Len(servers) |-> servers[i].id]

(* selectServer(clientInfo) called on the balancer; the caller notes what it *)
(* asked and what it got, and which backends were available at that moment  *)
DirectSelect(ci) ==
    /\ Len(picks) < MaxSelections
    /\ \E sel \in selectServer(lb, ci) :
          /\ lb' = sel.lb
          /\ picks' = Append(picks,
                [ok |-> sel.ok, id |-> sel.id, sessionId |-> ci.sessionId,
                 clientIp |-> ci.clientIp, avail |-> IdsOf(availableServers(lb))])
    /\ UNCHANGED <<now, execVars, svcVars, facade, nextGen, clientPool, handles, backendClients,
                   metrics, calls, probes, probeRounds>>

DirectBackends == {BackendIds[i] : i \in 1..NumDirectBackends}

(* addServer(host, port, options) called on the balancer *)
DirectAddServer(id, optWeight, optMaxConn) ==
    /\ nextGen < MaxDirectAdds
    /\ nextGen' = nextGen + 1
    /\ lb' = addServer(lb, id, nextGen + 1, optWeight, optMaxConn)
    /\ UNCHANGED <<now, execVars, svcVars, facade, picks, clientPool, handles, backendClients,
                   metrics, calls, probes, probeRounds>>

(* onRequestCompleted(serverId, success, responseTime) for a selection that  *)
(* is still counted on the backend                                           *)
DirectComplete(id, success) ==
    /\ HasServer(lb.servers, id)
    /\ GetServer(lb.servers, id).currentConnections > 0
    /\ lb' = onRequestCompleted(lb, id, success, 0)
    /\ UNCHANGED <<now, execVars, svcVars, facade, picks, nextGen, clientPool, handles,
                   backendClients, metrics, calls, probes, probeRounds>>

PickedOk(p) == p.ok
OkPicks == SelectSeq(picks, PickedOk)
PickCount(id) == Cardinality({i \in 1..Len(OkPicks) : OkPicks[i].id = id})

(* round robin over backends registered, and possibly disabled, before the  *)
(* first selection                                                          *)
InitRoundRobin ==
    /\ now = 0
    /\ ExecConstructed(0, TRUE)
    /\ ServicesConstructed
    /\ FacadeConstructed("gateway", "round_robin", FALSE)

NextRoundRobin ==
    \/ \E id \in DirectBackends : OkPicks = <<>> /\ DirectAddServer(id, 0, 0)
    \/ \E id \in DirectBackends : OkPicks = <<>> /\ SetServerEnabled(id, FALSE)
    \/ DirectSelect(PoolClientInfo)
    \/ \E id \in DirectBackends : DirectComplete(id, TRUE)

SpecRoundRobin == InitRoundRobin /\ [][NextRoundRobin]_vars

(* C12: under round robin over N backends that stay available, after M       *)
(* selections each of them was selected floor(M/N) or ceil(M/N) times, and   *)
(* each selection takes the available backend that follows the previous one  *)
(* in registry order, cyclically; with two available backends they          *)
(* alternate.                                                                *)
C12_RoundRobinFair ==
    LET avail == IdsOf(availableServers(lb))
        N == Len(avail)
        M == Len(OkPicks)
        Pos(id) == CHOOSE i \in 1..N : avail[i] = id
    IN M > 0 =>
          /\ \A k \in 1..M : \E i \in 1..N : avail[i] = OkPicks[k].id
          /\ \A i \in 1..N : PickCount(avail[i]) \in {M \div N, (M + N - 1) \div N}
          /\ \A k \in 1..(M - 1) : Pos(OkPicks[k + 1].id) = (Pos(OkPicks[k].id) % N) + 1
          /\ N = 2 => \A k \in 1..(M - 1) : OkPicks[k + 1].id # OkPicks[k].id

C12_Witness ==
    /\ Len(lb.servers) = 3
    /\ Len(availableServers(lb)) = 2
    /\ Len(OkPicks) = MaxSelections


(* weighted round robin over backends registered, with their weights,       *)
(* before the first selection                                               *)
FewBackends == {BackendIds[i] : i \in 1..NumFewBackends}

InitWeighted ==
    /\ now = 0
    /\ ExecConstructed(0, TRUE)
    /\ ServicesConstructed
    /\ FacadeConstructed("gateway", "weighted_round_robin", FALSE)

NextWeighted ==
    \/ \E id \in FewBackends, w \in {0, 2} :
          OkPicks = <<>> /\ DirectAddServer(id, w, 0)
    \/ DirectSelect(PoolClientInfo)

SpecWeighted == InitWeighted /\ [][NextWeighted]_vars

TotalWeight == SumSeq([i \in 1..Len(lb.servers) |-> lb.servers[i].weight])

(* C13: under weighted round robin with unchanged membership and every      *)
(* backend available, each run of W consecutive selections, W the sum of    *)
(* the weights, holds every backend exactly `weight` times.                 *)
C13_WeightedWindow ==
    LET W == TotalWeight
        M == Len(OkPicks)
    IN \A k \in 1..(M - W + 1) :
          \A i \in 1..Len(lb.servers) :
             Cardinality({j \in k..(k + W - 1) : OkPicks[j].id = lb.servers[i].id})
                = lb.servers[i].weight

C13_Witness ==
    /\ Len(lb.servers) >= 2
    /\ \E i, j \in 1..Len(lb.servers) : lb.servers[i].weight # lb.servers[j].weight
    /\ Len(OkPicks) > TotalWeight

(* ------------------ least connections, called directly ------------------ *)
InitLeast ==
    /\ now = 0
    /\ ExecConstructed(0, TRUE)
    /\ ServicesConstructed
    /\ FacadeConstructed("gateway", "least_connections", FALSE)

NextLeast ==
    \/ \E id \in FewBackends, opt \in BackendOptions :
          OkPicks = <<>> /\ DirectAddServer(id, opt.weight, opt.maxConnections)
    \/ \E id \in FewBackends : OkPicks = <<>> /\ SetServerEnabled(id, FALSE)
    \/ Len(picks) < MaxFewSelections /\ DirectSelect(PoolClientInfo)
    \/ \E id \in FewBackends : DirectComplete(id, TRUE)

SpecLeast == InitLeast /\ [][NextLeast]_vars

(* C14: under least connections every selection returns an available       *)
(* backend whose currentConnections is minimal among the available backends *)
(* at that moment, and among the minimal ones the first in registry order.  *)
C14_LeastConnectionsFirstMinimal ==
    [][ Len(picks') > Len(picks) /\ picks'[Len(picks')].ok =>
            LET avail == availableServers(lb)
                id == picks'[Len(picks')].id
            IN \E i \in 1..Len(avail) :
                  /\ avail[i].id = id
                  /\ \A j \in 1..Len(avail) :
                        avail[i].currentConnections <= avail[j].currentConnections
                  /\ \A j \in 1..(i - 1) :
                        avail[i].currentConnections < avail[j].currentConnections ]_vars

(* K selections were started, none has completed, and the load is spread *)
C14_Witness ==
    /\ Len(lb.servers) >= 2
    /\ Len(OkPicks) >= 4
    /\ SumSeq([i \in 1..Len(lb.servers) |-> lb.servers[i].currentConnections]) = Len(OkPicks)
    /\ \E i, j \in 1..Len(OkPicks) : OkPicks[i].id # OkPicks[j].id

(* --------------------- sticky sessions, called directly ------------------ *)
InitSticky ==
    /\ now = 0
    /\ ExecConstructed(0, TRUE)
    /\ ServicesConstructed
    /\ \E strategy \in Strategies : FacadeConstructed("gateway", strategy, TRUE)

(* the selections made here: one without a session, one with *)
StickyClientInfos == {PoolClientInfo, [sessionId |-> "s1", clientIp |-> IpA]}

NextSticky ==
    \/ \E id \in FewBackends :
          OkPicks = <<>> /\ ~HasServer(lb.servers, id) /\ DirectAddServer(id, 0, 0)
    \/ \E id \in FewBackends : BalancerRemoveServer(id)
    \/ \E s \in DOMAIN lb.sessionStore : SetServerEnabled(lb.sessionStore[s], FALSE)
    \/ \E ci \in StickyClientInfos :
          Len(picks) < MaxShortSelections /\ DirectSelect(ci)

SpecSticky == InitSticky /\ [][NextSticky]_vars

(* C15: with sticky sessions, a selection whose session is bound to a       *)
(* registered, available backend returns that backend and leaves the         *)
(* binding and the strategy's cursor and weighted list alone, under every    *)
(* strategy; otherwise the strategy chooses and the session is bound to its  *)
(* choice; no other step changes a binding.                                  *)
C15_StickySessionHolds ==
    [][ IF Len(picks') > Len(picks)
        THEN LET p == picks'[Len(picks')]
                 s == p.sessionId
                 bound == s # NoSession /\ s \in DOMAIN lb.sessionStore
                          /\ \E i \in 1..Len(lb.servers) :
                                /\ lb.servers[i].id = lb.sessionStore[s]
                                /\ isAvailable(lb.servers[i])
             IN p.ok =>
                  IF bound
                  THEN /\ p.id = lb.sessionStore[s]
                       /\ lb'.sessionStore = lb.sessionStore
                       /\ lb'.roundRobinIndex = lb.roundRobinIndex
                       /\ lb'.weightedRoundRobinState = lb.weightedRoundRobinState
                  ELSE /\ \E r \in selectByStrategy(lb, availableServers(lb),
                                      [sessionId |-> s, clientIp |-> p.clientIp]) :
                              r.id = p.id
                       /\ s # NoSession => /\ s \in DOMAIN lb'.sessionStore
                                           /\ lb'.sessionStore[s] = p.id
        ELSE lb'.sessionStore = lb.sessionStore ]_vars

(* a session came back to its backend although another selection in between *)
(* went elsewhere                                                           *)
C15_Witness ==
    \E i, j, k \in 1..Len(picks) :
        /\ i < j /\ j < k
        /\ picks[i].ok /\ picks[j].ok /\ picks[k].ok
        /\ picks[i].sessionId # NoSession
        /\ picks[k].sessionId = picks[i].sessionId
        /\ picks[j].sessionId = NoSession
        /\ picks[j].id # picks[i].id
        /\ picks[k].id = picks[i].id
        /\ Len(picks[k].avail) >= 2

(* -------------------------- ip hash, called directly --------------------- *)
InitIpHash ==
    /\ now = 0
    /\ ExecConstructed(0, TRUE)
    /\ ServicesConstructed
    /\ FacadeConstructed("gateway", "ip_hash", FALSE)

(* the selections made here: one without an address, one with *)
IpClientInfos == [sessionId : {NoSession}, clientIp : {NoIp, IpA}]

NextIpHash ==
    \/ \E id \in FewBackends : ~HasServer(lb.servers, id) /\ DirectAddServer(id, 0, 0)
    \/ \E id \in FewBackends : BalancerRemoveServer(id)
    \/ \E ci \in IpClientInfos : Len(picks) < MaxShortSelections /\ DirectSelect(ci)

SpecIpHash == InitIpHash /\ [][NextIpHash]_vars

SetOf(seq) == {seq[i] : i \in 1..Len(seq)}

(* C16 as stated: two selections with the same clientIp made against the    *)
(* same set of available backends return the same backend.                  *)
C16_SameIpSameSet ==
    \A i, j \in 1..Len(picks) :
        /\ picks[i].ok /\ picks[j].ok
        /\ picks[i].clientIp # NoIp
        /\ picks[i].clientIp = picks[j].clientIp
        /\ SetOf(picks[i].avail) = SetOf(picks[j].avail)
        => picks[i].id = picks[j].id

(* C16, amended: two selections with the same clientIp made against the     *)
(* same available backends in the same registry order return the same       *)
(* backend, and such a selection leaves the round-robin cursor alone; a      *)
(* selection without clientIp takes the backend under the cursor and         *)
(* advances the cursor.                                                      *)
C16_SameIpSameOrder ==
    /\ [](\A i, j \in 1..Len(picks) :
            /\ picks[i].ok /\ picks[j].ok
            /\ picks[i].clientIp # NoIp
            /\ picks[i].clientIp = picks[j].clientIp
            /\ picks[i].avail = picks[j].avail
            => picks[i].id = picks[j].id)
    /\ [][ Len(picks') > Len(picks) /\ picks'[Len(picks')].ok =>
             LET p == picks'[Len(picks')]
             IN IF p.clientIp = NoIp
                THEN /\ p.id = p.avail[(lb.roundRobinIndex % Len(p.avail)) + 1]
                     /\ lb'.roundRobinIndex = lb.roundRobinIndex + 1
                ELSE lb'.roundRobinIndex = lb.roundRobinIndex ]_vars

(* the same address came back to its backend after a selection without an   *)
(* address had moved the cursor                                             *)
C16_Witness ==
    \E i, j, k \in 1..Len(picks) :
        /\ i < j /\ j < k
        /\ picks[i].ok /\ picks[j].ok /\ picks[k].ok
        /\ picks[i].clientIp # NoIp
        /\ picks[k].clientIp = picks[i].clientIp
        /\ picks[j].clientIp = NoIp
        /\ Len(picks[i].avail) = 2
        /\ picks[k].avail = picks[i].avail
        /\ picks[k].id = picks[i].id

(* C17: selectServer fails exactly when no registered backend is available, *)
(* and a failed selection leaves the whole balancer as it was: request       *)
(* counter, distribution counters, cursor, sticky bindings and every         *)
(* backend's currentConnections.                                             *)
C17_FailsOnlyWithoutBackendAndChangesNothing ==
    [][ Len(picks') > Len(picks) =>
          LET p == picks'[Len(picks')]
          IN /\ ~p.ok <=> \A i \in 1..Len(lb.servers) : ~isAvailable(lb.servers[i])
             /\ ~p.ok => lb' = lb ]_vars

(* a selection failed after the balancer had served and bound a session *)
C17_Witness ==
    /\ \E i, j \in 1..Len(picks) : i < j /\ picks[i].ok /\ ~picks[j].ok
    /\ lb.totalRequests > 0
    /\ DOMAIN lb.sessionStore # {}
    /\ \E i \in 1..Len(lb.servers) : lb.servers[i].currentConnections > 0

(* C18: an error the executor produces itself because the circuit is open   *)
(* carries a kind that no backend reports and that is not retryable.        *)
C18_CircuitOpenIsDistinct ==
    \A c \in ExecCalls :
        xcalls[c].pc = "rejected" =>
            /\ xcalls[c].lastError \notin TransportErrors
            /\ ~shouldRetry(xcalls[c].lastError)

(* C19: addServer for an id that is already registered leaves the existing  *)
(* entry as it was: its currentConnections, request statistics, health and   *)
(* distribution counter (the entry is compared apart from the identity of    *)
(* the server object).                                                       *)
C19_DuplicateAddLeavesEntry ==
    [][ nextGen' # nextGen =>
          \A i \in 1..Len(lb.servers) :
              LET id == lb.servers[i].id
              IN /\ HasServer(lb'.servers, id)
                 /\ [GetServer(lb'.servers, id) EXCEPT !.gen = 0]
                       = [lb.servers[i] EXCEPT !.gen = 0]
                 /\ lb'.distributionStats[id] = lb.distributionStats[id] ]_vars

(* C20: every binding in the session store refers to a registered backend   *)
(* (removeServer drops the bindings of the backend it removes).             *)
C20_BindingsReferToRegistered ==
    \A s \in DOMAIN lb.sessionStore : HasServer(lb.servers, lb.sessionStore[s])

(* ------------------------- health probe rounds -------------------------- *)
NextProbes ==
    \/ Tick(MaxFacadeTime)
    \/ \E id \in Backends : AddServer(id, 0, 0)
    \/ \E id \in Backends : RemoveServer(id)
    \/ PerformHealthChecks
    \/ \E pr \in probes, healthy \in BOOLEAN : ProbeResult(pr, healthy)

SpecProbes == InitGateway /\ [][NextProbes]_vars

(* C21: a probe that settles leaves the round's other probes pending and    *)
(* changes only the backend object it probed: that backend becomes HEALTHY  *)
(* with one more successful request or UNHEALTHY with one more failed one;  *)
(* every other registered backend keeps its health and statistics.          *)
C21_ProbeSetsOnlyItsBackend ==
    [][ Cardinality(probes') < Cardinality(probes) =>
          \E pr \in probes :
              /\ probes' = probes \ {pr}
              /\ Len(lb'.servers) = Len(lb.servers)
              /\ \A i \in 1..Len(lb.servers) :
                    LET s == lb.servers[i]
                        t == lb'.servers[i]
                    IN IF s.id = pr.id /\ s.gen = pr.gen
                       THEN \/ /\ t.health = HEALTHY
                               /\ t.successfulRequests = s.successfulRequests + 1
                               /\ t.failedRequests = s.failedRequests
                            \/ /\ t.health = UNHEALTHY
                               /\ t.failedRequests = s.failedRequests + 1
                               /\ t.successfulRequests = s.successfulRequests
                       ELSE t = s ]_vars

(* a round is over in which one backend's probe failed and another's passed *)
C21_Witness ==
    /\ probeRounds > 0
    /\ probes = {}
    /\ \E i, j \in 1..Len(lb.servers) :
          lb.servers[i].health = HEALTHY /\ lb.servers[j].health = UNHEALTHY

(* ------------------------------ shutdown -------------------------------- *)
(* GrpcLoadBalancer.destroy: removeAllListeners, sessionStore.clear(); the   *)
(* registry and the health-check interval are left as they are               *)
destroy(lbx) == [lbx EXCEPT !.sessionStore = EmptyMap]

(* LoadBalancedGrpcClient.destroy / GrpcLoadBalancerGateway.stop: close and  *)
(* forget every handle, then loadBalancer.destroy(); `facade` records that   *)
(* the facade is gone                                                        *)
Destroy ==
    /\ facade \in {"client", "gateway"}
    /\ NoPendingContinuation
    /\ facade' = "destroyed"
    /\ handles' = [k \in DOMAIN handles |->
                     IF \E id \in DOMAIN clientPool : k \in SeqRange(clientPool[id])
                     THEN [handles[k] EXCEPT !.closed = TRUE]
                     ELSE handles[k]]
    /\ clientPool' = EmptyMap
    /\ backendClients' = EmptyMap
    /\ lb' = destroy(lb)
    /\ UNCHANGED <<now, execVars, svcVars, picks, nextGen, metrics, calls, probes, probeRounds>>

InitShutdown ==
    /\ now = 0
    /\ ExecConstructed(0, TRUE)
    /\ ServicesConstructed
    /\ \E kind \in {"client", "gateway"} : FacadeConstructed(kind, "round_robin", TRUE)

ShutdownClientInfo == [sessionId |-> "s1", clientIp |-> NoIp]

NextShutdown ==
    \/ \E id \in Backends : AddServer(id, 0, 0)
    \/ PerformHealthChecks
    \/ \E pr \in probes, healthy \in BOOLEAN : ProbeResult(pr, healthy)
    \/ \E c \in Calls : ClientCallBegin(c, ShutdownClientInfo, "OK")
    \/ \E c \in Calls : ClientCallSettle(c)
    \/ \E c \in Calls : GatewayCallBegin(c, ShutdownClientInfo, FALSE)
    \/ \E c \in Calls : GatewayCallSettle(c)
    \/ Destroy

SpecShutdown == InitShutdown /\ [][NextShutdown]_vars

(* C22: once the facade is shut down no health-check round is started, all  *)
(* handles are closed and forgotten, and the balancer holds no backend and   *)
(* no sticky binding.                                                        *)
C22_ShutdownReleasesEverything ==
    /\ [](facade = "destroyed" =>
            /\ clientPool = EmptyMap
            /\ backendClients = EmptyMap
            /\ \A k \in DOMAIN handles : handles[k].closed
            /\ DOMAIN lb.sessionStore = {}
            /\ lb.servers = <<>>)
    /\ [][facade = "destroyed" => probeRounds' = probeRounds]_vars

(* C23: in both facades successful + failed never exceeds total and equals  *)
(* it whenever no call is in flight; every call that has failed, before a    *)
(* backend was reached or after, is counted in failed exactly once, and      *)
(* every call that has returned exactly once in successful.                  *)
C23_MetricsAccountForEveryCall ==
    /\ metrics.successful + metrics.failed <= metrics.total
    /\ (\A c \in Calls : calls[c].pc \in {"idle", "returned", "failed"})
          => metrics.total = metrics.successful + metrics.failed
    /\ metrics.failed = Cardinality({c \in Calls : calls[c].pc = "failed"})
    /\ metrics.successful = Cardinality({c \in Calls : calls[c].pc = "returned"})
    /\ metrics.total = Cardinality({c \in Calls : calls[c].pc # "idle"})

(* one call failed because the pool had no handle left, none is in flight *)
C23_Witness ==
    /\ \A c \in Calls : Finished(c)
    /\ \E c \in Calls : calls[c].lastError = "NO_CLIENT"
    /\ metrics.failed > 0

(* ----------------------- the service registry --------------------------- *)
Did(reg, op, p) == [reg EXCEPT !.op = op, !.by = p]

RegistryTick ==
    /\ registry.clock < MaxRegistryClock
    /\ registry' = Did([registry EXCEPT !.clock = @ + 1], "tick", "none")
    /\ UNCHANGED <<now, execVars, facadeVars, breaker, cluster>>

(* new ServiceRegistry(file) in process p *)
RegistryConstruct(p) ==
    /\ ~registry.up[p]
    /\ registry' = Did(loadRegistry([registry EXCEPT !.up[p] = TRUE], p), "load", p)
    /\ UNCHANGED <<now, execVars, facadeVars, breaker, cluster>>

(* register(serviceName, info) by the service's own process *)
RegistryRegister(p) ==
    /\ registry.up[p]
    /\ registry' = Did(saveRegistry(
            [registry EXCEPT !.services[p] =
                FnSet(@, p, [lastHeartbeat |-> registry.clock, status |-> "healthy"])], p),
            "register", p)
    /\ UNCHANGED <<now, execVars, facadeVars, breaker, cluster>>

(* unregister(serviceName), as cleanup() does for the process's own service *)
RegistryUnregister(p) ==
    /\ registry.up[p]
    /\ p \in DOMAIN registry.services[p]
    /\ registry' = Did(saveRegistry(
            [registry EXCEPT !.services[p] = FnDelete(@, p)], p), "unregister", p)
    /\ UNCHANGED <<now, execVars, facadeVars, breaker, cluster>>

(* heartbeat(serviceName) by the service's own process *)
RegistryHeartbeat(p) ==
    /\ registry.up[p]
    /\ p \in DOMAIN registry.services[p]
    /\ registry' = Did(saveRegistry(
            [registry EXCEPT !.services[p][p] =
                [lastHeartbeat |-> registry.clock, status |-> "healthy"]], p),
            "heartbeat", p)
    /\ UNCHANGED <<now, execVars, facadeVars, breaker, cluster>>

(* discover / getAllServices / getHealthyServices: loadRegistry first *)
RegistryDiscover(p) ==
    /\ registry.up[p]
    /\ registry' = Did(loadRegistry(registry, p), "load", p)
    /\ UNCHANGED <<now, execVars, facadeVars, breaker, cluster>>

(* the 30 s interval of process p *)
RegistryHealthChecks(p, failing) ==
    /\ registry.up[p]
    /\ registry' = Did(performHealthChecks(registry, p, failing), "health", p)
    /\ UNCHANGED <<now, execVars, facadeVars, breaker, cluster>>

InitRegistry ==
    /\ now = 0
    /\ ExecConstructed(0, TRUE)
    /\ ServicesConstructed
    /\ FacadeConstructed("gateway", "round_robin", FALSE)

NextRegistry ==
    \/ RegistryTick
    \/ \E p \in Processes : RegistryConstruct(p)
    \/ \E p \in Processes : RegistryRegister(p)
    \/ \E p \in Processes : RegistryUnregister(p)
    \/ \E p \in Processes : RegistryHeartbeat(p)
    \/ \E p \in Processes : RegistryDiscover(p)
    \/ \E p \in Processes, failing \in SUBSET Services : RegistryHealthChecks(p, failing)

SpecRegistry == InitRegistry /\ [][NextRegistry]_vars

(* C24: an operation of a process other than unregister drops a service     *)
(* that the process and the file both hold only when the service's last      *)
(* heartbeat is more than 5 minutes old; after a round of health checks a    *)
(* service with such a heartbeat is still held only if its probe passed.     *)
C24_RemovedOnlyAfterFiveMinutes ==
    [][ \A p \in Processes :
          registry'.by = p /\ registry'.op # "unregister" =>
            /\ \A n \in (DOMAIN registry.services[p]) \cap (DOMAIN registry.file.services) :
                  n \notin DOMAIN registry'.services[p] =>
                     registry.clock - registry.file.services[n].lastHeartbeat
                        > InactiveHeartbeat
            /\ registry'.op = "health" =>
                  \A n \in DOMAIN registry'.services[p] :
                     registry.clock - registry.services[p][n].lastHeartbeat
                        > InactiveHeartbeat
                     => registry'.services[p][n].status = "healthy" ]_vars

(* C26: a service that registered and whose own process holds a heartbeat   *)
(* of it at most one minute old is in the registry file.                      *)
C26_HeartbeatingServiceStaysInFile ==
    \A p \in Services :
        (/\ registry.up[p]
         /\ p \in DOMAIN registry.services[p]
         /\ registry.clock - registry.services[p][p].lastHeartbeat <= 1)
        => p \in DOMAIN registry.file.services

(* ------------------ the API gateway's CircuitBreaker -------------------- *)
(* CircuitBreaker.onSuccess *)
onSuccess(b) == [b EXCEPT !.failureCount = 0, !.state = "CLOSED"]

(* CircuitBreaker.onFailure; openedAt remembers when the state became OPEN *)
onFailure(b) ==
    LET count == b.failureCount + 1
        opens == count >= BreakerThreshold
    IN [b EXCEPT !.failureCount = count,
                 !.lastFailureTime = b.clock,
                 !.state = IF opens THEN "OPEN" ELSE @,
                 !.openedAt = IF opens /\ b.state # "OPEN" THEN b.clock ELSE @]

BreakerTick ==
    /\ breaker.clock < MaxBreakerClock
    /\ breaker' = [breaker EXCEPT !.clock = @ + 1]
    /\ UNCHANGED <<now, execVars, facadeVars, registry, cluster>>

(* proxyRequest entering circuitBreaker.execute: rejected at once while     *)
(* OPEN and the timeout has not passed, otherwise the wrapped call starts    *)
BreakerExecute(r) ==
    /\ breaker.pc[r] = "idle"
    /\ breaker' =
         IF breaker.state = "OPEN"
         THEN IF breaker.clock - breaker.lastFailureTime > BreakerTimeout
              THEN [breaker EXCEPT !.state = "HALF_OPEN", !.pc[r] = "running"]
              ELSE [breaker EXCEPT !.pc[r] = "rejected"]
         ELSE [breaker EXCEPT !.pc[r] = "running"]
    /\ UNCHANGED <<now, execVars, facadeVars, registry, cluster>>

(* the wrapped call (discover + callService) settles *)
BreakerSettle(r, ok) ==
    /\ breaker.pc[r] = "running"
    /\ breaker' = [(IF ok THEN onSuccess(breaker) ELSE onFailure(breaker))
                      EXCEPT !.pc[r] = "idle"]
    /\ UNCHANGED <<now, execVars, facadeVars, registry, cluster>>

(* the 503 answer of a rejected request has been sent *)
BreakerAnswer(r) ==
    /\ breaker.pc[r] = "rejected"
    /\ breaker' = [breaker EXCEPT !.pc[r] = "idle"]
    /\ UNCHANGED <<now, execVars, facadeVars, registry, cluster>>

NextBreaker ==
    \/ BreakerTick
    \/ \E r \in Requests : BreakerExecute(r)
    \/ \E r \in Requests, ok \in BOOLEAN : BreakerSettle(r, ok)
    \/ \E r \in Requests : BreakerAnswer(r)

SpecBreaker == InitRegistry /\ [][NextBreaker]_vars

(* C25: the breaker is OPEN exactly from the third consecutive failure on,  *)
(* and while it is OPEN and no more than 60 s have passed since it opened,   *)
(* no step leaves OPEN and no request starts its wrapped call.               *)
C25_OpenForSixtySeconds ==
    /\ [](breaker.state = "CLOSED" => breaker.failureCount < BreakerThreshold)
    /\ [][ (breaker.state = "OPEN"
             /\ breaker.clock - breaker.openedAt <= BreakerTimeout)
           => /\ breaker'.state = "OPEN"
              /\ \A r \in Requests :
                    breaker.pc[r] = "idle" => breaker'.pc[r] # "running" ]_vars

(* ------------------- more claims on the executor ------------------------ *)
(* the attempt loop under test: as SpecRetry, with fewer callers and calls *)
AttemptCalls == 1..NumAttemptCalls

NextAttempts ==
    \/ Tick(MaxAttemptTime)
    \/ \E c \in AttemptCalls :
          x.totalRequests < MaxAttemptRequests /\ ExecCallStart(c)
    \/ \E c \in AttemptCalls : ExecCallResult(c)
    \/ \E c \in AttemptCalls : ExecRetry(c)

SpecAttempts == InitRetry /\ [][NextAttempts]_vars

(* C28: a step that issues an attempt of a unary call, the first or a      *)
(* retry, gives it the deadline (time of the step) + timeoutMs.              *)
C28_DeadlinePerAttempt ==
    [][ \A c \in ExecCalls :
          (xcalls'[c].pc = "transport" /\ xcalls[c].pc # "transport")
          => xcalls'[c].deadline = now + x.timeoutMs ]_vars

(* C29: when an attempt of a unary call gets its answer and the breaker is  *)
(* enabled, the failure count grows by exactly one if the call fails         *)
(* terminally, stays as it is if the attempt is retried, and becomes 0 if    *)
(* the call succeeds, whatever the number of attempts made.                  *)
C29_OneFailurePerCall ==
    [][ \A c \in ExecCalls :
          (x.enabled /\ xcalls[c].pc = "transport" /\ xcalls'[c].pc # "transport") =>
             /\ xcalls'[c].pc = "thrown" => x'.failures = x.failures + 1
             /\ xcalls'[c].pc = "delay" => x'.failures = x.failures
             /\ xcalls'[c].pc = "returned" => x'.failures = 0 ]_vars

C29_Witness ==
    /\ x.enabled
    /\ x.failures = 1
    /\ \E c \in ExecCalls :
          /\ xcalls[c].pc = "thrown"
          /\ xcalls[c].transports >= 2
          /\ xcalls[c].lastError \in retryableErrors

(* C30: a unary call whose first attempt fails with an error that is not    *)
(* retryable throws that error at once: one transport attempt, no backoff    *)
(* delay, one failed request and, with the breaker enabled, one failure.     *)
C30_NonRetryableFailsAtOnce ==
    [][ \A c \in ExecCalls :
          (/\ xcalls[c].pc = "transport"
           /\ xcalls[c].attempt = 0
           /\ xcalls'[c].lastError \notin retryableErrors \cup {NoError}) =>
             /\ xcalls'[c].pc = "thrown"
             /\ xcalls'[c].transports = 1
             /\ xcalls'[c].delays = 0
             /\ xcalls'[c].lastError \in TransportErrors \cup {NoCode}
             /\ x'.failedRequests = x.failedRequests + 1
             /\ x'.retriedRequests = x.retriedRequests
             /\ x.enabled => x'.failures = x.failures + 1 ]_vars

C30_Witness ==
    \E c \in ExecCalls :
        /\ xcalls[c].pc = "thrown"
        /\ xcalls[c].lastError = "INVALID_ARGUMENT"
        /\ xcalls[c].transports = 1
        /\ xcalls[c].delays = 0
        /\ x.maxRetries >= 1

(* ------------------ the embedded client's breakers ---------------------- *)

(* C27: once FailureThreshold (the configured threshold) embedded-client    *)
(* calls to a backend have failed terminally in the executor and none has    *)
(* succeeded, a call handed any idle pooled handle of that backend is        *)
(* rejected by the handle's breaker.                                         *)
C27_BackendBreakerRejects ==
    \A id \in DOMAIN clientPool :
        LET failedCalls == {c \in Calls : /\ calls[c].pc = "failed"
                                          /\ calls[c].server = id
                                          /\ calls[c].entered = "transport"}
            returned == {c \in Calls : calls[c].pc = "returned" /\ calls[c].server = id}
        IN (Cardinality(failedCalls) >= FailureThreshold /\ returned = {}) =>
              \A h \in SeqRange(clientPool[id]) :
                  ~handles[h].inUse => ~callEnter(handles[h].x, now).admitted

(* ------------------------ streams of the executor ----------------------- *)
(* stream.on('end') of a stream whose 'error' handler has already run: the  *)
(* two handlers are independent, and a readable stream that ends with an     *)
(* error status emits 'error' and may emit 'end' as well                     *)
ExecStreamEndAfterError(c) ==
    /\ xcalls[c].pc = "thrown"
    /\ xcalls[c].kind = "stream"
    /\ xcalls[c].lastError \in TransportErrors
    /\ xcalls[c].outcomes = 1
    /\ x' = onCallSuccess(x)
    /\ xcalls' = [xcalls EXCEPT ![c] = [@ EXCEPT !.endState = x'.state, !.outcomes = @ + 1]]
    /\ consec' = 0
    /\ UNCHANGED <<now, facadeVars, svcVars>>

NextStream ==
    \/ Tick(MaxAttemptTime)
    \/ \E c \in AttemptCalls :
          x.totalRequests < MaxAttemptRequests /\ ExecStreamStart(c)
    \/ \E c \in AttemptCalls : ExecStreamError(c)
    \/ \E c \in AttemptCalls : ExecStreamEnd(c)
    \/ \E c \in AttemptCalls : ExecStreamEndAfterError(c)

SpecStream == InitExec /\ [][NextStream]_vars

(* C31: a stream is issued to the transport once, its error adds exactly    *)
(* one to the breaker's failure count and opens the breaker at the           *)
(* threshold, and a stream reports at most one outcome to the breaker.       *)
C31_StreamCountsOnce ==
    /\ [](\A c \in ExecCalls :
             xcalls[c].kind = "stream" =>
                xcalls[c].transports <= 1 /\ xcalls[c].outcomes <= 1)
    /\ [][ \A c \in ExecCalls :
             (xcalls[c].pc = "streaming" /\ xcalls'[c].pc = "thrown") =>
                /\ x'.failures = x.failures + 1
                /\ x'.failures >= x.failureThreshold => x'.state = "OPEN" ]_vars

(* ------------------------ more claims on the pool ----------------------- *)

(* C32: a step closes a pooled handle only if it is the shutdown, or the    *)
(* handle's backend is no longer registered after it, or it is a sweep (no   *)
(* probe settles in it) and the handle is not in use and has been idle.      *)
C32_ClosedOnlyForCause ==
    [][ \A k \in DOMAIN handles :
          (~handles[k].closed /\ handles'[k].closed) =>
             \/ facade' = "destroyed"
             \/ ~HasServer(lb'.servers, handles[k].serverId)
             \/ /\ probes' = probes
                /\ ~handles[k].inUse
                /\ now > handles[k].lastUsed ]_vars

(* --------------------- more claims on the breaker ----------------------- *)

(* C33: while the breaker is HALF_OPEN and the trial call that half-opened  *)
(* it is still under way, every call that arrives is rejected.               *)
C33_OneTrialWhileHalfOpen ==
    [][ (/\ x.state = "HALF_OPEN"
         /\ \E d \in ExecCalls :
               xcalls[d].trial /\ xcalls[d].pc \in {"transport", "delay", "streaming"})
        => \A c \in ExecCalls :
              (/\ xcalls[c].pc \in {"idle", "returned", "thrown", "rejected"}
               /\ x'.totalRequests = x.totalRequests + 1
               /\ xcalls'[c] # xcalls[c])
              => xcalls'[c].pc = "rejected" ]_vars

(* ------------- weighted round robin with backends switched -------------- *)
(* backends registered before the first selection, enabled and disabled at  *)
(* any time                                                                  *)
NextReenable ==
    \/ \E id \in FewBackends, w \in {0, 2} :
          OkPicks = <<>> /\ DirectAddServer(id, w, 0)
    \/ \E id \in FewBackends, en \in BOOLEAN : SetServerEnabled(id, en)
    \/ Len(picks) < MaxFewSelections /\ DirectSelect(PoolClientInfo)

SpecReenable == InitWeighted /\ [][NextReenable]_vars

(* C34: under weighted round robin with unchanged membership, a registered  *)
(* backend that was available at each of W consecutive selections, W the     *)
(* sum of the weights, was returned by at least one of them.                 *)
C34_AvailableAgainSelectedWithinPass ==
    LET W == TotalWeight
        M == Len(OkPicks)
    IN \A i \in 1..Len(lb.servers) :
          \A k \in 1..(M - W + 1) :
             (\A j \in k..(k + W - 1) : lb.servers[i].id \in SetOf(OkPicks[j].avail))
             => \E j \in k..(k + W - 1) : OkPicks[j].id = lb.servers[i].id

(* ---------------------------- BackendCluster ---------------------------- *)
(* addServer(port, serverId): the caller chooses serverId freely; the       *)
(* gateway registers the instance as localhost:port.  One instance is named  *)
(* by its address, the other is not.                                         *)
ClusterIds == {"a:1", "backend-2"}
ClusterAddress(serverId) == IF serverId = "a:1" THEN "a:1" ELSE "b:1"

ClusterHas(serverId) ==
    \E i \in 1..Len(cluster.servers) : cluster.servers[i].serverId = serverId

ClusterIndex(serverId) ==
    CHOOSE i \in 1..Len(cluster.servers) : cluster.servers[i].serverId = serverId

(* gateway.addBackendServer for each instance of the list, in order *)
RECURSIVE addBackendServers(_, _, _)
addBackendServers(lbx, list, gen) ==
    IF list = <<>> THEN lbx
    ELSE addBackendServers(addServer(lbx, Head(list).address, gen + 1, 0, 0),
                           Tail(list), gen + 1)

(* gateway.removeBackendServer(serverId) *)
removeBackendServer(lbx, serverId) == removeServer(lbx, serverId)

(* cluster.addServer(port, serverId) followed by the instance's start() *)
ClusterAddServer(serverId) ==
    /\ ~ClusterHas(serverId)
    /\ cluster' = [cluster EXCEPT
          !.servers = Append(@, [serverId |-> serverId,
                                 address |-> ClusterAddress(serverId),
                                 started |-> TRUE]),
          !.stopped = @ \ {ClusterAddress(serverId)}]
    /\ UNCHANGED <<now, execVars, facadeVars, registry, breaker>>

(* cluster.setupGateway(): every started instance is registered *)
ClusterSetupGateway ==
    /\ ~cluster.gateway
    /\ LET started == SelectSeq(cluster.servers, LAMBDA sv : sv.started)
       IN /\ nextGen + Len(started) <= MaxDirectAdds
          /\ lb' = addBackendServers(lb, started, nextGen)
          /\ nextGen' = nextGen + Len(started)
    /\ cluster' = [cluster EXCEPT !.gateway = TRUE]
    /\ UNCHANGED <<now, execVars, registry, breaker, facade, picks, clientPool, handles,
                   backendClients, metrics, calls, probes, probeRounds>>

(* cluster.removeServer(serverId) *)
ClusterRemoveServer(serverId) ==
    /\ ClusterHas(serverId)
    /\ LET i == ClusterIndex(serverId)
       IN cluster' = [cluster EXCEPT
             !.servers = SubSeq(@, 1, i - 1) \o SubSeq(@, i + 1, Len(@)),
             !.stopped = @ \cup {cluster.servers[i].address}]
    /\ IF cluster.gateway
       THEN /\ backendClients' = removeBackendClient(backendClients, serverId)
            /\ lb' = removeBackendServer(lb, serverId)
       ELSE UNCHANGED <<backendClients, lb>>
    /\ UNCHANGED <<now, execVars, registry, breaker, facade, picks, nextGen, clientPool,
                   handles, metrics, calls, probes, probeRounds>>

(* cluster.simulateServerFailure(serverId) up to the setTimeout *)
ClusterSimulateServerFailure(serverId) ==
    /\ ClusterHas(serverId)
    /\ cluster.servers[ClusterIndex(serverId)].started
    /\ cluster' = [cluster EXCEPT
          !.servers[ClusterIndex(serverId)].started = FALSE,
          !.restores = @ \cup {serverId},
          !.stopped = @ \cup {ClusterAddress(serverId)}]
    /\ IF cluster.gateway
       THEN /\ backendClients' = removeBackendClient(backendClients, serverId)
            /\ lb' = removeBackendServer(lb, serverId)
       ELSE UNCHANGED <<backendClients, lb>>
    /\ UNCHANGED <<now, execVars, registry, breaker, facade, picks, nextGen, clientPool,
                   handles, metrics, calls, probes, probeRounds>>

(* the timer of simulateServerFailure: the instance starts again and is     *)
(* added back to the gateway                                                 *)
ClusterRestore(serverId) ==
    /\ serverId \in cluster.restores
    /\ cluster' = [cluster EXCEPT
          !.servers = [i \in 1..Len(@) |->
                         IF @[i].serverId = serverId
                         THEN [@[i] EXCEPT !.started = TRUE] ELSE @[i]],
          !.restores = @ \ {serverId},
          !.stopped = @ \ {ClusterAddress(serverId)}]
    /\ IF cluster.gateway
       THEN /\ nextGen < MaxDirectAdds
            /\ nextGen' = nextGen + 1
            /\ lb' = addServer(lb, ClusterAddress(serverId), nextGen + 1, 0, 0)
       ELSE UNCHANGED <<nextGen, lb>>
    /\ UNCHANGED <<now, execVars, registry, breaker, facade, picks, clientPool, handles,
                   backendClients, metrics, calls, probes, probeRounds>>

InitCluster ==
    /\ now = 0
    /\ ExecConstructed(0, TRUE)
    /\ ServicesConstructed
    /\ FacadeConstructed("gateway", "round_robin", FALSE)

NextCluster ==
    \/ \E serverId \in ClusterIds : ClusterAddServer(serverId)
    \/ ClusterSetupGateway
    \/ \E serverId \in ClusterIds : ClusterRemoveServer(serverId)
    \/ \E serverId \in ClusterIds : ClusterSimulateServerFailure(serverId)
    \/ \E serverId \in ClusterIds : ClusterRestore(serverId)
    \/ Len(picks) < MaxShortSelections /\ DirectSelect(PoolClientInfo)

SpecCluster == InitCluster /\ [][NextCluster]_vars

(* C35: once the cluster has set up the gateway, an instance that           *)
(* removeServer or simulateServerFailure stopped, and that has not been      *)
(* started again, is not registered in the gateway's load balancer.          *)
C35_StoppedBackendNotRegistered ==
    cluster.gateway =>
        \A address \in cluster.stopped : ~HasServer(lb.servers, address)

(* C36: no handle is held by two facade calls in flight, and the handle a   *)
(* call obtains from getClientForServer is either new or was not in use.     *)
C36_HandleHeldByOneCall ==
    /\ [](\A c, d \in Calls :
            (c # d /\ calls[c].pc = "exec" /\ calls[d].pc = "exec")
                => calls[c].handle # calls[d].handle)
    /\ [][\A c \in Calls :
            (calls[c].pc = "idle" /\ calls'[c].pc = "exec")
                => \/ calls'[c].handle \notin DOMAIN handles
                   \/ ~handles[calls'[c].handle].inUse]_vars

(* two calls in flight at once, the first one's handle evicted from the     *)
(* pool and the second one's created in its place                            *)
C36_Witness ==
    \E c, d \in Calls :
        /\ c # d
        /\ calls[c].pc = "exec" /\ calls[d].pc = "exec"
        /\ handles[calls[c].handle].inUse /\ handles[calls[d].handle].inUse
        /\ handles[calls[c].handle].closed
        /\ calls[d].handle \in SeqRange(PoolOf(clientPool, calls[d].server))

(* C37: a call whose selected backend has its pool at the cap with every    *)
(* handle in use fails in the step that issues it: no handle is created,     *)
(* the transport is not invoked, and the backend's currentConnections is     *)
(* what it was before the call.                                              *)
PoolExhausted(id) ==
    /\ Len(PoolOf(clientPool, id)) >= maxClientsPerServer
    /\ \A k \in SeqRange(PoolOf(clientPool, id)) : handles[k].inUse

C37_ExhaustedPoolFailsAtOnce ==
    [][\A c \in Calls :
         (/\ calls[c].pc = "idle" /\ calls'[c].pc # "idle"
          /\ calls'[c].server # NoServer
          /\ PoolExhausted(calls'[c].server))
         => /\ calls'[c].pc = "failed"
            /\ calls'[c].handle = NoHandle
            /\ calls'[c].transports = 0
            /\ clientPool' = clientPool
            /\ handles' = handles
            /\ GetServer(lb'.servers, calls'[c].server).currentConnections
                 = GetServer(lb.servers, calls'[c].server).currentConnections]_vars

(* a call failed for want of a handle while another call held the only one  *)
C37_Witness ==
    \E c, d \in Calls :
        /\ calls[c].lastError = "NO_CLIENT" /\ calls[c].pc = "failed"
        /\ calls[c].handle = NoHandle
        /\ calls[d].pc = "exec" /\ calls[d].server = calls[c].server
        /\ calls[d].handle \in SeqRange(PoolOf(clientPool, calls[c].server))
        /\ GetServer(lb.servers, calls[c].server).currentConnections = 1

(* C38: when no call of the executor is in progress, its totalRequests       *)
(* equals successfulRequests + failedRequests; a call rejected by the open   *)
(* circuit is among the failed ones.                                          *)
C38_EveryRequestSucceededOrFailed ==
    (\A c \in ExecCalls : xcalls[c].pc \in {"idle", "returned", "thrown", "rejected"})
        => x.totalRequests = x.successfulRequests + x.failedRequests

(* ------------- membership changes under the cyclic strategies ----------- *)
(* round robin or weighted round robin on the balancer, with backends added, *)
(* removed, disabled and enabled, probed and completed between selections;  *)
(* MaxMemberSteps bounds the additions, selections and probe rounds together *)
InitMembership ==
    /\ now = 0
    /\ ExecConstructed(0, TRUE)
    /\ ServicesConstructed
    /\ \E st \in {"round_robin", "weighted_round_robin"} :
          FacadeConstructed("gateway", st, FALSE)

(* two backends, so that one can be removed while the other stays *)
MemberBackends == {BackendIds[1], BackendIds[2]}

MemberSteps == nextGen + Len(picks) + probeRounds

NextMembership ==
    \/ \E id \in MemberBackends, w \in {0, 2} :
          MemberSteps < MaxMemberSteps /\ DirectAddServer(id, w, 0)
    \/ \E id \in MemberBackends : BalancerRemoveServer(id)
    \/ \E id \in MemberBackends, en \in BOOLEAN : SetServerEnabled(id, en)
    \/ MemberSteps < MaxMemberSteps /\ PerformHealthChecks
    \/ \E pr \in probes, healthy \in BOOLEAN : ProbeResult(pr, healthy)
    \/ \E id \in MemberBackends : DirectComplete(id, TRUE)
    \/ MemberSteps < MaxMemberSteps /\ DirectSelect(PoolClientInfo)

SpecMembership == InitMembership /\ [][NextMembership]_vars

(* C39: every id of the weighted sequence is a registered backend, and a    *)
(* selection that does not fail returns a backend registered at that moment. *)
C39_SelectionIsRegistered ==
    /\ [](\A i \in 1..Len(lb.weightedRoundRobinState) :
            HasServer(lb.servers, lb.weightedRoundRobinState[i]))
    /\ [][(Len(picks') = Len(picks) + 1 /\ picks'[Len(picks')].ok)
            => /\ HasServer(lb.servers, picks'[Len(picks')].id)
               /\ HasServer(lb'.servers, picks'[Len(picks')].id)]_vars

(* a backend that was selected has since been removed, and a later weighted *)
(* selection over the rebuilt sequence returned a registered one             *)
C39_Witness ==
    /\ lb.strategy = "weighted_round_robin"
    /\ lb.weightedRoundRobinState # <<>>
    /\ Len(picks) >= 2
    /\ picks[Len(picks)].ok
    /\ HasServer(lb.servers, picks[Len(picks)].id)
    /\ \E j \in 1..(Len(picks) - 1) :
          picks[j].ok /\ ~HasServer(lb.servers, picks[j].id)

====
